---- MODULE Spec2Model ----
(***************************************************************************)
(* Approval workflow engine of the expense-management backend:             *)
(*   services/approvalService.js  (rule selection, workflow construction,  *)
(*                                 decision processing)                    *)
(*   routes/approvals.js          (POST /:expenseId/process, /override)    *)
(*   routes/expenses.js           (POST / : expense submission)            *)
(*   middleware/auth.js           (authenticateToken, requireRole)         *)
(*   database/schema.sql          (tables)                                 *)
(* The tables are the state; every HTTP handler is one action.             *)
(***************************************************************************)
EXTENDS Integers, Sequences, FiniteSets, Bags, TLC

VARIABLES
    users,               \* table users: id -> [company_id, role, manager_id, is_active]
    approval_rules,      \* table approval_rules: id -> row
    approval_rule_steps, \* table approval_rule_steps: sequence of rows
    expenses,            \* table expenses: sequence of rows, id = index
    expense_approvals,   \* table expense_approvals (the ledger): sequence of rows
    notifications,       \* table notifications: bag of rows
    audit_logs,          \* table audit_logs: bag of rows
    response,            \* the HTTP response of the last request
    userEdits,           \* number of directory changes made so far
    fn,                  \* inputs and result of a function evaluated alone
    tx,                  \* the requests in flight: slot -> position and uncommitted writes
    clients              \* what db.getClient hands out: "perRequest" or "perCall"

vars == <<users, approval_rules, approval_rule_steps, expenses, expense_approvals,
          notifications, audit_logs, response, userEdits, fn, tx, clients>>

(***************************************************************************)
(* Bounds of the model.                                                    *)
(***************************************************************************)
MaxExpenses == 1       \* expenses submitted in Spec
MaxPairExpenses == 2   \* expenses submitted in SpecPair
MaxOverrides == 1      \* administrative overrides
MaxUserEdits == 1      \* changes of the user directory
MaxTotal == 100        \* ledger rows counted in SpecFn
MaxPctApprovers == 50  \* managers of the company in SpecPct
MaxRules == 2          \* rows of approval_rules in SpecSel
MaxSubmissions == 2      \* concurrent submissions in SpecPool
PoolSize == 2            \* clients of the connection pool
MaxStoredRules == 4      \* rows of approval_rules in SpecRules
MaxRequests == 2       \* requests in flight in SpecTx

(***************************************************************************)
(* SQL NULL for ids (SERIAL ids start at 1) and for nullable numbers.      *)
(***************************************************************************)
NULL == 0
NoAmount == -1

Statuses == {"pending", "approved", "rejected"}
Terminal == {"approved", "rejected"}
Actions == {"approved", "rejected"}
Roles == {"admin", "manager", "employee"}

(***************************************************************************)
(* IEEE-754 binary64 arithmetic, as JavaScript's Number uses it.           *)
(* A finite positive double is [kind |-> "num", exp |-> e, man |-> m]: m   *)
(* holds the 52 fraction bits of the significand as four 13-bit limbs,     *)
(* most significant first, and the value is (1 + m / 2^52) * 2^e.          *)
(***************************************************************************)
LimbBits == 13
Limb == 8192

FZero == [kind |-> "zero", exp |-> 0, man |-> <<0, 0, 0, 0>>]
FNaN == [kind |-> "nan", exp |-> 0, man |-> <<0, 0, 0, 0>>]

RECURSIVE Pow2(_)
Pow2(n) == IF n = 0 THEN 1 ELSE 2 * Pow2(n - 1)

\* Largest k with den * 2^k <= num (num >= den > 0).
RECURSIVE ShiftDown(_, _)
ShiftDown(num, den) == IF 2 * den <= num THEN 1 + ShiftDown(num, 2 * den) ELSE 0

\* Smallest k with num * 2^k >= den (num > 0).
RECURSIVE ShiftUp(_, _)
ShiftUp(num, den) == IF num >= den THEN 0 ELSE 1 + ShiftUp(2 * num, den)

\* Number of bits of n >= 1.
RECURSIVE BitLength(_)
BitLength(n) == IF n <= 1 THEN 1 ELSE 1 + BitLength(n \div 2)

\* Round to nearest, ties to even: the significand 1.m is kept or stepped up
\* by one unit in the last place, given the first dropped bit (guard) and
\* whether anything non-zero follows it (sticky).
RoundNearestEven(m, exp, guard, sticky) ==
    IF guard = 1 /\ (sticky \/ m[4] % 2 = 1)
    THEN LET s4 == m[4] + 1
             s3 == m[3] + s4 \div Limb
             s2 == m[2] + s3 \div Limb
             s1 == m[1] + s2 \div Limb
         IN IF s1 \div Limb = 1
            THEN [kind |-> "num", exp |-> exp + 1, man |-> <<0, 0, 0, 0>>]
            ELSE [kind |-> "num", exp |-> exp,
                  man |-> <<s1 % Limb, s2 % Limb, s3 % Limb, s4 % Limb>>]
    ELSE [kind |-> "num", exp |-> exp, man |-> m]

\* a / t for non-negative integers below 2^17, as a double (0/0 is NaN): long
\* division of the scaled operands, 13 quotient bits at a time.
FDiv(a, t) ==
    IF t = 0 THEN (IF a = 0 THEN FNaN ELSE [kind |-> "inf", exp |-> 0, man |-> <<0, 0, 0, 0>>])
    ELSE IF a = 0 THEN FZero
    ELSE LET down == IF a >= t THEN ShiftDown(a, t) ELSE 0
             up   == IF a >= t THEN 0 ELSE ShiftUp(a, t)
             num  == a * Pow2(up)
             den  == t * Pow2(down)
             r0   == num - den
             q1   == (r0 * Limb) \div den
             r1   == (r0 * Limb) % den
             q2   == (r1 * Limb) \div den
             r2   == (r1 * Limb) % den
             q3   == (r2 * Limb) \div den
             r3   == (r2 * Limb) % den
             q4   == (r3 * Limb) \div den
             r4   == (r3 * Limb) % den
             g    == IF 2 * r4 >= den THEN 1 ELSE 0
             rest == 2 * r4 - g * den
         IN RoundNearestEven(<<q1, q2, q3, q4>>, down - up, g, rest > 0)

\* x * c for a double x and an integer 1 <= c < 2^13, as a double: the exact
\* product limb by limb, then shifted back to 53 bits and rounded.
FMulInt(x, c) ==
    IF x.kind # "num" THEN x
    ELSE LET d4   == x.man[4] * c
             d3   == x.man[3] * c + d4 \div Limb
             d2   == x.man[2] * c + d3 \div Limb
             d1   == x.man[1] * c + d2 \div Limb
             d0   == c + d1 \div Limb
             p    == <<d0, d1 % Limb, d2 % Limb, d3 % Limb, d4 % Limb>>
             sh   == BitLength(d0) - 1
             low  == Pow2(sh)
             up   == Pow2(LimbBits - sh)
             m    == [i \in 1..4 |-> (p[i] % low) * up + p[i + 1] \div low]
             drop == p[5] % low
             g    == IF sh > 0 /\ drop >= low \div 2 THEN 1 ELSE 0
             rest == IF sh > 0 THEN drop % (low \div 2) ELSE 0
         IN RoundNearestEven(m, x.exp + sh, g, rest > 0)

\* The integer part of a double below 2^26.
FFloor(x) ==
    IF x.kind # "num" \/ x.exp < 0 THEN 0
    ELSE IF x.exp <= LimbBits
         THEN Pow2(x.exp) + x.man[1] \div Pow2(LimbBits - x.exp)
         ELSE Pow2(x.exp) + x.man[1] * Pow2(x.exp - LimbBits)
                          + x.man[2] \div Pow2(2 * LimbBits - x.exp)

\* x >= n for a double x and an integer n >= 0 (every comparison with NaN is false).
FGeInt(x, n) ==
    CASE x.kind = "nan" -> FALSE
      [] x.kind = "inf" -> TRUE
      [] OTHER -> FFloor(x) >= n


\* Lines 255-256 of checkPercentageApproval: (approved / total) * 100 on Numbers
\* (node-postgres hands the counts over as strings, which "/" turns into Numbers).
ApprovalPercentage(total, approved) == FMulInt(FDiv(approved, total), 100)

\* Line 258: approvalPercentage >= requiredPercentage (a NULL percentage_required
\* arrives as null, which ">=" turns into 0).
PercentageReached(approvalPercentage, requiredPercentage) ==
    FGeInt(approvalPercentage, requiredPercentage)

(***************************************************************************)
(* Queries on the tables.                                                  *)
(***************************************************************************)
ExpenseIds == 1..Len(expenses)

\* The rows (by position) of the ledger for one expense.
ApprovalsOf(ledger, expenseId) ==
    {i \in 1..Len(ledger) : ledger[i].expense_id = expenseId}

\* The pending rows of one approver for one expense.
PendingOf(ledger, expenseId, approverId) ==
    {i \in 1..Len(ledger) : /\ ledger[i].expense_id = expenseId
                            /\ ledger[i].approver_id = approverId
                            /\ ledger[i].status = "pending"}

\* A set of integers as the ascending sequence of its elements.
RECURSIVE Ascending(_)
Ascending(S) ==
    IF S = {} THEN << >>
    ELSE LET m == CHOOSE x \in S : \A y \in S : x <= y
         IN <<m>> \o Ascending(S \ {m})

\* No request is in flight.
NoRequests == << >>

NoResponse == [op |-> "none", code |-> 0, expenseUpdated |-> FALSE, finalStatus |-> "none"]

Reply(op, code) == [op |-> op, code |-> code, expenseUpdated |-> FALSE, finalStatus |-> "none"]

(***************************************************************************)
(* middleware/auth.js                                                      *)
(***************************************************************************)
\* authenticateToken: the token's user exists and is active.
authenticateToken(userId) == userId \in DOMAIN users /\ users[userId].is_active

\* requireRole(roles)
requireRole(userId, roles) == users[userId].role \in roles

(***************************************************************************)
(* ApprovalService.getApplicableRule: the rows that ORDER BY min_amount    *)
(* DESC, sequence_order ASC LIMIT 1 can return (PostgreSQL sorts NULL      *)
(* first in DESC and last in ASC; rows equal in both keys come in any      *)
(* order).  {NULL} when no rule matches.                                   *)
(***************************************************************************)
RuleMatches(rule, expenseAmount, companyId) ==
    /\ rule.company_id = companyId
    /\ rule.is_active
    /\ (rule.min_amount = NoAmount \/ expenseAmount >= rule.min_amount)
    /\ (rule.max_amount = NoAmount \/ expenseAmount <= rule.max_amount)

\* Variant: ORDER BY min_amount ASC instead of DESC.
RuleBefore_MinAscending(a, b) ==
    \/ a.min_amount # NoAmount /\ b.min_amount = NoAmount
    \/ a.min_amount # NoAmount /\ b.min_amount # NoAmount /\ a.min_amount < b.min_amount
    \/ /\ a.min_amount = b.min_amount
       /\ \/ a.sequence_order # NULL /\ b.sequence_order = NULL
          \/ /\ a.sequence_order # NULL /\ b.sequence_order # NULL
             /\ a.sequence_order < b.sequence_order

RuleBefore(a, b) ==
    \/ a.min_amount = NoAmount /\ b.min_amount # NoAmount
    \/ a.min_amount # NoAmount /\ b.min_amount # NoAmount /\ a.min_amount > b.min_amount
    \/ /\ a.min_amount = b.min_amount
       /\ \/ a.sequence_order # NULL /\ b.sequence_order = NULL
          \/ /\ a.sequence_order # NULL /\ b.sequence_order # NULL
             /\ a.sequence_order < b.sequence_order

getApplicableRule(expenseAmount, companyId) ==
    LET matching == {r \in DOMAIN approval_rules :
                        RuleMatches(approval_rules[r], expenseAmount, companyId)}
        first == {r \in matching :
                     \A q \in matching : ~RuleBefore(approval_rules[q], approval_rules[r])}
    IN IF matching = {} THEN {NULL} ELSE first

(***************************************************************************)
(* Workflow construction.  Each operator gives the ledger rows it inserts, *)
(* in insertion order; exps is the expenses table as the builder reads it. *)
(***************************************************************************)
LedgerRow(expenseId, approverId, stepOrder) ==
    [expense_id |-> expenseId, approver_id |-> approverId,
     step_order |-> stepOrder, status |-> "pending"]

\* The steps of a rule, ORDER BY step_order ASC (equal orders keep table order).
RECURSIVE InsertStep(_, _)
InsertStep(step, sorted) ==
    IF sorted = << >> THEN <<step>>
    ELSE IF step.step_order < Head(sorted).step_order THEN <<step>> \o sorted
         ELSE <<Head(sorted)>> \o InsertStep(step, Tail(sorted))

RECURSIVE OrderSteps(_)
OrderSteps(steps) ==
    IF steps = << >> THEN << >>
    ELSE InsertStep(steps[Len(steps)], OrderSteps(SubSeq(steps, 1, Len(steps) - 1)))

StepsOf(ruleId) ==
    OrderSteps(SelectSeq(approval_rule_steps, LAMBDA step : step.rule_id = ruleId))

\* Variant: every step takes its own approver_id.
StepApprover_OwnApproverOnly(exps, expenseId, step) == step.approver_id

\* The approver a step resolves to (NULL: none): a manager step takes the
\* manager of the expense's owner, every other step its own approver_id.
StepApprover(exps, expenseId, step) ==
    IF step.approver_role = "manager"
    THEN users[exps[expenseId].employee_id].manager_id
    ELSE step.approver_id

RECURSIVE SequentialRows(_, _, _)
SequentialRows(exps, expenseId, steps) ==
    IF steps = << >> THEN << >>
    ELSE LET approverId == StepApprover(exps, expenseId, Head(steps))
             rest == SequentialRows(exps, expenseId, Tail(steps))
         IN IF approverId # NULL
            THEN <<LedgerRow(expenseId, approverId, Head(steps).step_order)>> \o rest
            ELSE rest

createSequentialApprovals(exps, expenseId, ruleId) ==
    SequentialRows(exps, expenseId, StepsOf(ruleId))

\* Variant: without the condition is_active = true.
createPercentageApprovals_Deactivated(exps, expenseId, ruleId) ==
    LET approvers == {u \in DOMAIN users :
                         /\ users[u].company_id = exps[expenseId].company_id
                         /\ users[u].role \in {"manager", "admin"}}
        ids == Ascending(approvers)
    IN [i \in 1..Len(ids) |-> LedgerRow(expenseId, ids[i], 1)]

createPercentageApprovals(exps, expenseId, ruleId) ==
    LET approvers == {u \in DOMAIN users :
                         /\ users[u].company_id = exps[expenseId].company_id
                         /\ users[u].role \in {"manager", "admin"}
                         /\ users[u].is_active}
        ids == Ascending(approvers)
    IN [i \in 1..Len(ids) |-> LedgerRow(expenseId, ids[i], 1)]

\* Variant: the approver id is also bound to the step_order placeholder.
createSpecificApproverApproval_StepFromApprover(expenseId, approverId) ==
    <<LedgerRow(expenseId, approverId, approverId)>>

createSpecificApproverApproval(expenseId, approverId) ==
    <<LedgerRow(expenseId, approverId, 1)>>

createHybridApprovals(exps, expenseId, ruleId) ==
    createPercentageApprovals(exps, expenseId, ruleId)
    \o (IF approval_rules[ruleId].specific_approver_id # NULL
        THEN createSpecificApproverApproval(expenseId,
                                            approval_rules[ruleId].specific_approver_id)
        ELSE << >>)

createApprovalWorkflow(exps, expenseId, ruleId) ==
    LET approvalRule == approval_rules[ruleId] IN
    CASE approvalRule.rule_type = "sequential" ->
            createSequentialApprovals(exps, expenseId, ruleId)
      [] approvalRule.rule_type = "percentage" ->
            createPercentageApprovals(exps, expenseId, ruleId)
      [] approvalRule.rule_type = "specific_approver" ->
            createSpecificApproverApproval(expenseId, approvalRule.specific_approver_id)
      [] approvalRule.rule_type = "hybrid" ->
            createHybridApprovals(exps, expenseId, ruleId)
      [] OTHER -> << >>


(***************************************************************************)
(* Decision processing.  ledger and exps are the tables as the transaction *)
(* reads them, after its own ledger update.                                *)
(***************************************************************************)
NoUpdate == [update |-> FALSE, status |-> "none"]

UpdateTo(status) == [update |-> TRUE, status |-> status]

\* Variant: approved as soon as one row is approved.
checkSequentialApproval_AnyApproved(ledger, expenseId) ==
    LET approvals == ApprovalsOf(ledger, expenseId)
        someApproved == \E i \in approvals : ledger[i].status = "approved"
        hasRejection == \E i \in approvals : ledger[i].status = "rejected"
    IN IF hasRejection THEN UpdateTo("rejected")
       ELSE IF someApproved THEN UpdateTo("approved")
       ELSE NoUpdate

checkSequentialApproval(ledger, expenseId) ==
    LET approvals == ApprovalsOf(ledger, expenseId)
        allApproved == \A i \in approvals : ledger[i].status = "approved"
        hasRejection == \E i \in approvals : ledger[i].status = "rejected"
    IN IF hasRejection THEN UpdateTo("rejected")
       ELSE IF allApproved THEN UpdateTo("approved")
       ELSE NoUpdate

checkPercentageApproval(ledger, expenseId, requiredPercentage) ==
    LET approvals == ApprovalsOf(ledger, expenseId)
        total == Cardinality(approvals)
        approved == Cardinality({i \in approvals : ledger[i].status = "approved"})
        approvalPercentage == ApprovalPercentage(total, approved)
    IN IF PercentageReached(approvalPercentage, requiredPercentage)
       THEN UpdateTo("approved")
       ELSE NoUpdate

\* The join of checkHybridApproval: ledger rows ea, of any expense, whose approver
\* is the specific approver of this expense's rule and whose status is approved.
SpecificApprovalRows(ledger, exps, expenseId) ==
    LET ruleId == exps[expenseId].approval_rule_id IN
    IF ruleId \notin DOMAIN approval_rules THEN {}
    ELSE {i \in 1..Len(ledger) :
             /\ approval_rules[ruleId].specific_approver_id # NULL
             /\ ledger[i].approver_id = approval_rules[ruleId].specific_approver_id
             /\ ledger[i].status = "approved"}

\* Variant: the hybrid decision without the specific-approver path.
checkHybridApproval_PercentageOnly(ledger, exps, expenseId, requiredPercentage) ==
    checkPercentageApproval(ledger, expenseId, requiredPercentage)

checkHybridApproval(ledger, exps, expenseId, requiredPercentage) ==
    IF SpecificApprovalRows(ledger, exps, expenseId) # {}
    THEN UpdateTo("approved")
    ELSE checkPercentageApproval(ledger, expenseId, requiredPercentage)

\* Variant: a rejection is dispatched on the rule type like an approval.
shouldUpdateExpenseStatus_NoVeto(ledger, exps, expenseId, action) ==
    LET ruleId == exps[expenseId].approval_rule_id IN
    IF ruleId \notin DOMAIN approval_rules THEN NoUpdate
    ELSE LET approvalRule == approval_rules[ruleId] IN
         CASE approvalRule.rule_type = "sequential" ->
                 checkSequentialApproval(ledger, expenseId)
            [] approvalRule.rule_type = "percentage" ->
                 checkPercentageApproval(ledger, expenseId,
                                         approvalRule.percentage_required)
            [] approvalRule.rule_type = "specific_approver" ->
                 UpdateTo("approved")
            [] approvalRule.rule_type = "hybrid" ->
                 checkHybridApproval(ledger, exps, expenseId,
                                     approvalRule.percentage_required)
            [] OTHER -> NoUpdate

\* Variant: a sequential rule is decided by its first approval, like a
\* specific_approver rule.
shouldUpdateExpenseStatus_SequentialAsSpecific(ledger, exps, expenseId, action) ==
    LET ruleId == exps[expenseId].approval_rule_id IN
    IF ruleId \notin DOMAIN approval_rules THEN NoUpdate
    ELSE LET approvalRule == approval_rules[ruleId] IN
         IF action = "rejected" THEN UpdateTo("rejected")
         ELSE CASE approvalRule.rule_type \in {"sequential", "specific_approver"} ->
                     UpdateTo("approved")
                [] approvalRule.rule_type = "percentage" ->
                     checkPercentageApproval(ledger, expenseId,
                                             approvalRule.percentage_required)
                [] approvalRule.rule_type = "hybrid" ->
                     checkHybridApproval(ledger, exps, expenseId,
                                         approvalRule.percentage_required)
                [] OTHER -> NoUpdate

shouldUpdateExpenseStatus(ledger, exps, expenseId, action) ==
    LET ruleId == exps[expenseId].approval_rule_id IN
    IF ruleId \notin DOMAIN approval_rules THEN NoUpdate
    ELSE LET approvalRule == approval_rules[ruleId] IN
         IF action = "rejected" THEN UpdateTo("rejected")
         ELSE CASE approvalRule.rule_type = "sequential" ->
                     checkSequentialApproval(ledger, expenseId)
                [] approvalRule.rule_type = "percentage" ->
                     checkPercentageApproval(ledger, expenseId,
                                             approvalRule.percentage_required)
                [] approvalRule.rule_type = "specific_approver" ->
                     UpdateTo("approved")
                [] approvalRule.rule_type = "hybrid" ->
                     checkHybridApproval(ledger, exps, expenseId,
                                         approvalRule.percentage_required)
                [] OTHER -> NoUpdate

\* The ledger after the UPDATE of processApproval: every pending row of the
\* approver for the expense takes the action.
DecidedLedger(expenseId, approverId, action) ==
    [i \in 1..Len(expense_approvals) |->
        IF i \in PendingOf(expense_approvals, expenseId, approverId)
        THEN [expense_approvals[i] EXCEPT !.status = action]
        ELSE expense_approvals[i]]

\* ApprovalService.processApproval, one transaction.
processApproval(expenseId, approverId, action) ==
    LET ledger == DecidedLedger(expenseId, approverId, action)
        shouldUpdateExpense == shouldUpdateExpenseStatus(ledger, expenses, expenseId, action)
    IN /\ expense_approvals' = ledger
       /\ IF shouldUpdateExpense.update
          THEN /\ expenses' = [expenses EXCEPT
                                 ![expenseId].status = shouldUpdateExpense.status]
               /\ notifications' = notifications (+) SetToBag({
                      [user_id |-> expenses[expenseId].employee_id,
                       expense_id |-> expenseId,
                       type |-> "expense_status_update"]})
          ELSE UNCHANGED <<expenses, notifications>>
       /\ response' = [op |-> "process", code |-> 200,
                       expenseUpdated |-> shouldUpdateExpense.update,
                       finalStatus |-> shouldUpdateExpense.status]

\* Variant: the check without the condition ea.status = 'pending'.
HasPendingApproval_AnyStatus(expenseId, userId) ==
    \E i \in ApprovalsOf(expense_approvals, expenseId) :
        /\ expense_approvals[i].approver_id = userId
        /\ expenses[expenseId].company_id = users[userId].company_id

\* The pending-approval check of POST /:expenseId/process.
HasPendingApproval(expenseId, userId) ==
    \E i \in PendingOf(expense_approvals, expenseId, userId) :
        expenses[expenseId].company_id = users[userId].company_id

(***************************************************************************)
(* The requests.                                                           *)
(***************************************************************************)
\* POST /api/approvals/:expenseId/process.  The handler runs only for a request
\* that passed authenticateToken and requireRole(['manager', 'admin']).
ProcessApproval(userId, expenseId, action) ==
    /\ authenticateToken(userId)
    /\ requireRole(userId, {"manager", "admin"})
    /\ UNCHANGED <<users, approval_rules, approval_rule_steps, audit_logs, userEdits, fn, tx, clients>>
    /\ IF ~HasPendingApproval(expenseId, userId)
       THEN /\ response' = Reply("process", 404)
            /\ UNCHANGED <<expenses, expense_approvals, notifications>>
       ELSE processApproval(expenseId, userId, action)

\* Variant: without the auto-approval of the else branch.
SubmitExpense_NoAutoApproval(userId, convertedAmount) ==
    /\ authenticateToken(userId)
    /\ LET expenseId == Len(expenses) + 1
           inserted == [employee_id |-> userId,
                        company_id |-> users[userId].company_id,
                        converted_amount |-> convertedAmount,
                        status |-> "pending",
                        approval_rule_id |-> NULL]
       IN \E rule \in getApplicableRule(convertedAmount, users[userId].company_id) :
            IF rule # NULL
            THEN LET exps == Append(expenses, [inserted EXCEPT !.approval_rule_id = rule])
                 IN /\ expenses' = exps
                    /\ expense_approvals' =
                          expense_approvals \o createApprovalWorkflow(exps, expenseId, rule)
            ELSE /\ expenses' = Append(expenses, inserted)
                 /\ UNCHANGED expense_approvals
    /\ response' = Reply("submit", 201)
    /\ UNCHANGED <<users, approval_rules, approval_rule_steps, notifications,
                   audit_logs, userEdits, fn, tx, clients>>

\* POST /api/expenses: the expense is inserted, the rule selected and the
\* workflow built in one unit of work.
SubmitExpense(userId, convertedAmount) ==
    /\ authenticateToken(userId)
    /\ LET expenseId == Len(expenses) + 1
           inserted == [employee_id |-> userId,
                        company_id |-> users[userId].company_id,
                        converted_amount |-> convertedAmount,
                        status |-> "pending",
                        approval_rule_id |-> NULL]
       IN \E rule \in getApplicableRule(convertedAmount, users[userId].company_id) :
            IF rule # NULL
            THEN LET exps == Append(expenses, [inserted EXCEPT !.approval_rule_id = rule])
                 IN /\ expenses' = exps
                    /\ expense_approvals' =
                          expense_approvals \o createApprovalWorkflow(exps, expenseId, rule)
            ELSE /\ expenses' = Append(expenses, [inserted EXCEPT !.status = "approved"])
                 /\ UNCHANGED expense_approvals
    /\ response' = Reply("submit", 201)
    /\ UNCHANGED <<users, approval_rules, approval_rule_steps, notifications,
                   audit_logs, userEdits, fn, tx, clients>>

\* Variant: the ledger UPDATE without the condition status = 'pending'.
OverrideApproval_AllRows(userId, expenseId, action) ==
    /\ BagCardinality(audit_logs) < MaxOverrides
    /\ authenticateToken(userId)
    /\ requireRole(userId, {"admin"})
    /\ expenses' =
         IF expenses[expenseId].company_id = users[userId].company_id
         THEN [expenses EXCEPT ![expenseId].status = action]
         ELSE expenses
    /\ expense_approvals' =
         [i \in 1..Len(expense_approvals) |->
            IF expense_approvals[i].expense_id = expenseId
            THEN [expense_approvals[i] EXCEPT !.status = action]
            ELSE expense_approvals[i]]
    /\ audit_logs' = audit_logs (+) SetToBag({
           [user_id |-> userId, expense_id |-> expenseId,
            action |-> "admin_override", new_values |-> action]})
    /\ notifications' = notifications (+) SetToBag({
           [user_id |-> expenses[expenseId].employee_id,
            expense_id |-> expenseId,
            type |-> "admin_override"]})
    /\ response' = Reply("override", 200)
    /\ UNCHANGED <<users, approval_rules, approval_rule_steps, userEdits, fn, tx, clients>>

\* POST /api/approvals/:expenseId/override.  The handler runs only for a request
\* that passed authenticateToken and requireRole(['admin']).
OverrideApproval(userId, expenseId, action) ==
    /\ BagCardinality(audit_logs) < MaxOverrides
    /\ authenticateToken(userId)
    /\ requireRole(userId, {"admin"})
    /\ expenses' =
         IF expenses[expenseId].company_id = users[userId].company_id
         THEN [expenses EXCEPT ![expenseId].status = action]
         ELSE expenses
    /\ expense_approvals' =
         [i \in 1..Len(expense_approvals) |->
            IF /\ expense_approvals[i].expense_id = expenseId
               /\ expense_approvals[i].status = "pending"
            THEN [expense_approvals[i] EXCEPT !.status = action]
            ELSE expense_approvals[i]]
    /\ audit_logs' = audit_logs (+) SetToBag({
           [user_id |-> userId, expense_id |-> expenseId,
            action |-> "admin_override", new_values |-> action]})
    /\ notifications' = notifications (+) SetToBag({
           [user_id |-> expenses[expenseId].employee_id,
            expense_id |-> expenseId,
            type |-> "admin_override"]})
    /\ response' = Reply("override", 200)
    /\ UNCHANGED <<users, approval_rules, approval_rule_steps, userEdits, fn, tx, clients>>

\* PUT /:id of the users router: an admin updates a user of the same company.
\* The requests drawn here change the role of another user and nothing else.
UpdateUser(adminId, userId, role) ==
    /\ userEdits < MaxUserEdits
    /\ authenticateToken(adminId)
    /\ requireRole(adminId, {"admin"})
    /\ userId # adminId
    /\ users[userId].company_id = users[adminId].company_id
    /\ users[userId].role # role
    /\ users' = [users EXCEPT ![userId].role = role]
    /\ userEdits' = userEdits + 1
    /\ response' = Reply("updateUser", 200)
    /\ UNCHANGED <<approval_rules, approval_rule_steps, expenses, expense_approvals,
                   notifications, audit_logs, fn, tx, clients>>


(***************************************************************************)
(* The initial tables: a company with an employee, a manager and an admin, *)
(* and one approval rule of any type for amounts above 100 (smaller        *)
(* amounts match no rule).                                                 *)
(***************************************************************************)
User(company, role, manager) ==
    [company_id |-> company, role |-> role, manager_id |-> manager, is_active |-> TRUE]

Directory ==
    <<User(1, "employee", 2), User(1, "manager", NULL), User(1, "admin", NULL)>>

Rule(company, type, min, max, percentage, approver, order) ==
    [company_id |-> company, rule_type |-> type, min_amount |-> min, max_amount |-> max,
     percentage_required |-> percentage, specific_approver_id |-> approver,
     sequence_order |-> order, is_active |-> TRUE]

Step(rule, order, role, approver) ==
    [rule_id |-> rule, step_order |-> order, approver_role |-> role, approver_id |-> approver]

RuleCatalog ==
    {Rule(1, "sequential", 101, NoAmount, NULL, NULL, 1),
     Rule(1, "percentage", 101, NoAmount, 50, NULL, 1),
     Rule(1, "percentage", 101, NoAmount, 100, NULL, 1),
     Rule(1, "specific_approver", 101, NoAmount, NULL, 3, 1),
     Rule(1, "hybrid", 101, NoAmount, 50, 1, 1),
     Rule(1, "hybrid", 101, NoAmount, 100, 3, 1)}

\* The steps rule 1 can have when it is sequential: the owner's manager, then
\* possibly an admin step (no approver_id, so no ledger row), then user 3; or
\* user 3 alone.
StepCatalog ==
    {<<Step(1, 1, "manager", NULL), Step(1, 2, "admin", NULL), Step(1, 3, "specific_user", 3)>>,
     <<Step(1, 1, "manager", NULL), Step(1, 2, "specific_user", 3)>>,
     <<Step(1, 1, "specific_user", 3)>>}

Amounts == {50, 500}

Submitters == {1}

EditRoles == {"manager"}

FnIdle == [pc |-> "idle", total |-> 0, approved |-> 0, approvalPercentage |-> FZero]

Init ==
    /\ users = Directory
    /\ \E rule \in RuleCatalog :
         /\ approval_rules = <<rule>>
         /\ IF rule.rule_type = "sequential"
            THEN approval_rule_steps \in StepCatalog
            ELSE approval_rule_steps = << >>
    /\ expenses = << >>
    /\ expense_approvals = << >>
    /\ notifications = EmptyBag
    /\ audit_logs = EmptyBag
    /\ response = NoResponse
    /\ userEdits = 0
    /\ fn = FnIdle
    /\ tx = NoRequests
    /\ clients = "perRequest"

Process == \E u \in DOMAIN users, e \in ExpenseIds, a \in Actions : ProcessApproval(u, e, a)

Submit ==
    /\ Len(expenses) < MaxExpenses
    /\ \E u \in Submitters, amount \in Amounts : SubmitExpense(u, amount)

Override == \E u \in DOMAIN users, e \in ExpenseIds, a \in Actions : OverrideApproval(u, e, a)

EditUser ==
    \E admin \in DOMAIN users, u \in DOMAIN users, r \in EditRoles : UpdateUser(admin, u, r)

Next == Submit \/ Process \/ Override \/ EditUser

Spec == Init /\ [][Next]_vars

(***************************************************************************)
(* SpecPair: the same system with room for a second expense.               *)
(***************************************************************************)
SubmitPair ==
    /\ Len(expenses) < MaxPairExpenses
    /\ \E u \in Submitters, amount \in Amounts : SubmitExpense(u, amount)

NextPair == SubmitPair \/ Process \/ Override \/ EditUser

SpecPair == Init /\ [][NextPair]_vars

(***************************************************************************)
(* SpecPct: a company of one employee and n managers with one percentage   *)
(* rule; the employee submits one expense and the managers approve it one  *)
(* at a time.  The COUNT query does not tell approvers apart, so managers   *)
(* decide in the order of their ids.                                       *)
(***************************************************************************)
Percentages == {50, 58, 60, 100}

PctDirectory(n) ==
    [u \in 1..(n + 1) |-> IF u = 1 THEN User(1, "employee", 2) ELSE User(1, "manager", NULL)]

InitPct ==
    /\ \E n \in 1..MaxPctApprovers : users = PctDirectory(n)
    /\ \E p \in Percentages :
         approval_rules = <<Rule(1, "percentage", 101, NoAmount, p, NULL, 1)>>
    /\ approval_rule_steps = << >>
    /\ expenses = << >>
    /\ expense_approvals = << >>
    /\ notifications = EmptyBag
    /\ audit_logs = EmptyBag
    /\ response = NoResponse
    /\ userEdits = 0
    /\ fn = FnIdle
    /\ tx = NoRequests
    /\ clients = "perRequest"

SubmitPct ==
    /\ Len(expenses) < MaxExpenses
    /\ SubmitExpense(1, 500)

ApproveNext ==
    \E e \in ExpenseIds, u \in DOMAIN users :
        /\ PendingOf(expense_approvals, e, u) # {}
        /\ \A v \in DOMAIN users : PendingOf(expense_approvals, e, v) # {} => u <= v
        /\ ProcessApproval(u, e, "approved")

NextPct == SubmitPct \/ ApproveNext

SpecPct == InitPct /\ [][NextPct]_vars

(***************************************************************************)
(* SpecFn: the arithmetic of checkPercentageApproval alone, on every count *)
(* of ledger rows (total) and of approved rows among them.                 *)
(***************************************************************************)
InitFn ==
    /\ users = Directory
    /\ approval_rules = << >>
    /\ approval_rule_steps = << >>
    /\ expenses = << >>
    /\ expense_approvals = << >>
    /\ notifications = EmptyBag
    /\ audit_logs = EmptyBag
    /\ response = NoResponse
    /\ userEdits = 0
    /\ tx = NoRequests
    /\ clients = "perRequest"
    /\ \E total \in 1..MaxTotal, approved \in 0..MaxTotal :
         /\ approved <= total
         /\ fn = [pc |-> "start", total |-> total, approved |-> approved,
                  approvalPercentage |-> FZero]

EvalPercentage ==
    /\ fn.pc = "start"
    /\ fn' = [fn EXCEPT !.pc = "done",
                        !.approvalPercentage = ApprovalPercentage(fn.total, fn.approved)]
    /\ UNCHANGED <<users, approval_rules, approval_rule_steps, expenses, expense_approvals,
                   notifications, audit_logs, response, userEdits, tx, clients>>

NextFn == EvalPercentage

SpecFn == InitFn /\ [][NextFn]_vars


(***************************************************************************)
(* SpecOrg: the system of Spec next to a second company, whose admin sends *)
(* requests too.                                                           *)
(***************************************************************************)
OrgDirectory == Directory \o <<User(2, "admin", NULL)>>

InitOrg ==
    /\ users = OrgDirectory
    /\ \E rule \in RuleCatalog :
         /\ approval_rules = <<rule>>
         /\ IF rule.rule_type = "sequential"
            THEN approval_rule_steps \in StepCatalog
            ELSE approval_rule_steps = << >>
    /\ expenses = << >>
    /\ expense_approvals = << >>
    /\ notifications = EmptyBag
    /\ audit_logs = EmptyBag
    /\ response = NoResponse
    /\ userEdits = 0
    /\ fn = FnIdle
    /\ tx = NoRequests
    /\ clients = "perRequest"

SpecOrg == InitOrg /\ [][Next]_vars

(***************************************************************************)
(* SpecSel: getApplicableRule called twice with the same amount on a fixed *)
(* table of up to MaxRules rules of companies 1 and 2, active or not, with *)
(* the amounts and sequence orders that rule creation stores (min_amount   *)
(* and sequence_order are never NULL there, max_amount may be).            *)
(***************************************************************************)
SelRules ==
    {[Rule(company, "percentage", min, max, 60, NULL, order) EXCEPT !.is_active = active] :
        company \in {1, 2}, min \in {0, 100}, max \in {NoAmount, 100},
        order \in {1, 2}, active \in BOOLEAN}

SelAmounts == {50, 100, 500}

InitSel ==
    /\ users = Directory
    /\ \E n \in 0..MaxRules : approval_rules \in [1..n -> SelRules]
    /\ approval_rule_steps = << >>
    /\ expenses = << >>
    /\ expense_approvals = << >>
    /\ notifications = EmptyBag
    /\ audit_logs = EmptyBag
    /\ response = NoResponse
    /\ userEdits = 0
    /\ tx = NoRequests
    /\ clients = "perRequest"
    /\ \E amount \in SelAmounts :
         fn = [pc |-> "start", expenseAmount |-> amount, companyId |-> 1,
               rule |-> NULL, again |-> NULL]

\* The first call: any row the query can return.
SelectRule ==
    /\ fn.pc = "start"
    /\ \E rule \in getApplicableRule(fn.expenseAmount, fn.companyId) :
         fn' = [fn EXCEPT !.pc = "selected", !.rule = rule]
    /\ UNCHANGED <<users, approval_rules, approval_rule_steps, expenses, expense_approvals,
                   notifications, audit_logs, response, userEdits, tx, clients>>

\* The second call, same arguments, same table.
SelectAgain ==
    /\ fn.pc = "selected"
    /\ \E rule \in getApplicableRule(fn.expenseAmount, fn.companyId) :
         fn' = [fn EXCEPT !.pc = "again", !.again = rule]
    /\ UNCHANGED <<users, approval_rules, approval_rule_steps, expenses, expense_approvals,
                   notifications, audit_logs, response, userEdits, tx, clients>>

NextSel == SelectRule \/ SelectAgain

SpecSel == InitSel /\ [][NextSel]_vars

(***************************************************************************)
(* SpecTx: process requests run statement by statement, each on a client   *)
(* of its own, up to MaxRequests of them at a time.  PostgreSQL runs the   *)
(* transactions READ COMMITTED: every statement reads what is committed    *)
(* plus the writes of its own transaction; an UPDATE waits while another   *)
(* open transaction holds a row it matches and then looks at the row as    *)
(* committed; COMMIT publishes the writes, ROLLBACK drops them.  The       *)
(* tables hold the committed rows, tx the positions and open writes.       *)
(***************************************************************************)
Idle ==
    [pc |-> "idle", user |-> NULL, expense |-> NULL, action |-> "none", rows |-> {},
     decision |-> NoUpdate, flipped |-> FALSE, notified |-> FALSE,
     overlapped |-> FALSE, failedAt |-> "none"]

\* The positions between BEGIN and COMMIT, each named by the statement to run next.
Open == {"update", "decide", "flip", "notify", "commit"}

InFlight(t) == tx[t].pc \in Open

\* The ledger as the statements of request t read it.
TxLedger(t) ==
    [i \in 1..Len(expense_approvals) |->
        IF i \in tx[t].rows
        THEN [expense_approvals[i] EXCEPT !.status = tx[t].action]
        ELSE expense_approvals[i]]

\* The route up to the call of processApproval, and its BEGIN.
BeginProcess(t, userId, expenseId, action) ==
    /\ tx[t].pc = "idle"
    /\ authenticateToken(userId)
    /\ requireRole(userId, {"manager", "admin"})
    /\ IF ~HasPendingApproval(expenseId, userId)
       THEN /\ tx' = [tx EXCEPT ![t] = [Idle EXCEPT !.pc = "refused", !.user = userId,
                                         !.expense = expenseId, !.action = action]]
            /\ response' = Reply("process", 404)
       ELSE /\ tx' = [s \in DOMAIN tx |->
                        IF s = t
                        THEN [Idle EXCEPT !.pc = "update", !.user = userId,
                                          !.expense = expenseId, !.action = action,
                                          !.overlapped = \E o \in DOMAIN tx : InFlight(o)]
                        ELSE IF InFlight(s) THEN [tx[s] EXCEPT !.overlapped = TRUE]
                        ELSE tx[s]]
            /\ UNCHANGED response
    /\ UNCHANGED <<users, approval_rules, approval_rule_steps, expenses, expense_approvals,
                   notifications, audit_logs, userEdits, fn, clients>>

\* UPDATE expense_approvals ... WHERE expense_id, approver_id, status = 'pending'.
UpdateLedger(t) ==
    /\ tx[t].pc = "update"
    /\ LET rows == PendingOf(expense_approvals, tx[t].expense, tx[t].user)
       IN /\ \A o \in DOMAIN tx \ {t} : InFlight(o) => tx[o].rows \cap rows = {}
          /\ tx' = [tx EXCEPT ![t].rows = rows, ![t].pc = "decide"]
    /\ UNCHANGED <<users, approval_rules, approval_rule_steps, expenses, expense_approvals,
                   notifications, audit_logs, response, userEdits, fn, clients>>

\* shouldUpdateExpenseStatus on the transaction's view.
Decide(t) ==
    /\ tx[t].pc = "decide"
    /\ LET shouldUpdateExpense ==
               shouldUpdateExpenseStatus(TxLedger(t), expenses, tx[t].expense, tx[t].action)
       IN tx' = [tx EXCEPT ![t].decision = shouldUpdateExpense,
                           ![t].pc = IF shouldUpdateExpense.update THEN "flip" ELSE "commit"]
    /\ UNCHANGED <<users, approval_rules, approval_rule_steps, expenses, expense_approvals,
                   notifications, audit_logs, response, userEdits, fn, clients>>

\* UPDATE expenses SET status ... WHERE id: waits for an open write of the row.
FlipStatus(t) ==
    /\ tx[t].pc = "flip"
    /\ \A o \in DOMAIN tx \ {t} :
          InFlight(o) => ~(tx[o].flipped /\ tx[o].expense = tx[t].expense)
    /\ tx' = [tx EXCEPT ![t].flipped = TRUE, ![t].pc = "notify"]
    /\ UNCHANGED <<users, approval_rules, approval_rule_steps, expenses, expense_approvals,
                   notifications, audit_logs, response, userEdits, fn, clients>>

\* SELECT employee_id and INSERT INTO notifications.
Notify(t) ==
    /\ tx[t].pc = "notify"
    /\ tx' = [tx EXCEPT ![t].notified = TRUE, ![t].pc = "commit"]
    /\ UNCHANGED <<users, approval_rules, approval_rule_steps, expenses, expense_approvals,
                   notifications, audit_logs, response, userEdits, fn, clients>>

\* COMMIT, and the route's answer.
Commit(t) ==
    /\ tx[t].pc = "commit"
    /\ expense_approvals' = TxLedger(t)
    /\ expenses' = IF tx[t].flipped
                   THEN [expenses EXCEPT ![tx[t].expense].status = tx[t].decision.status]
                   ELSE expenses
    /\ notifications' =
         IF tx[t].notified
         THEN notifications (+) SetToBag({
                  [user_id |-> expenses[tx[t].expense].employee_id,
                   expense_id |-> tx[t].expense,
                   type |-> "expense_status_update"]})
         ELSE notifications
    /\ response' = [op |-> "process", code |-> 200,
                    expenseUpdated |-> tx[t].decision.update,
                    finalStatus |-> tx[t].decision.status]
    /\ tx' = [tx EXCEPT ![t].pc = "done"]
    /\ UNCHANGED <<users, approval_rules, approval_rule_steps, audit_logs, userEdits,
                   fn, clients>>

\* Variant: the catch block publishes what the transaction wrote so far.
Fail_CommitsPartial(t) ==
    /\ InFlight(t)
    /\ tx' = [tx EXCEPT ![t].pc = "failed", ![t].failedAt = tx[t].pc]
    /\ response' = Reply("process", 500)
    /\ expense_approvals' = TxLedger(t)
    /\ expenses' = IF tx[t].flipped
                   THEN [expenses EXCEPT ![tx[t].expense].status = tx[t].decision.status]
                   ELSE expenses
    /\ UNCHANGED <<users, approval_rules, approval_rule_steps, notifications, audit_logs,
                   userEdits, fn, clients>>

\* The statement to run next throws: the catch block runs ROLLBACK and rethrows,
\* the route answers 500.
Fail(t) ==
    /\ InFlight(t)
    /\ tx' = [tx EXCEPT ![t].pc = "failed", ![t].failedAt = tx[t].pc]
    /\ response' = Reply("process", 500)
    /\ UNCHANGED <<users, approval_rules, approval_rule_steps, expenses, expense_approvals,
                   notifications, audit_logs, userEdits, fn, clients>>

InitTx ==
    /\ users = Directory
    /\ \E rule \in RuleCatalog :
         /\ approval_rules = <<rule>>
         /\ IF rule.rule_type = "sequential"
            THEN approval_rule_steps \in StepCatalog
            ELSE approval_rule_steps = << >>
    /\ expenses = << >>
    /\ expense_approvals = << >>
    /\ notifications = EmptyBag
    /\ audit_logs = EmptyBag
    /\ response = NoResponse
    /\ userEdits = 0
    /\ fn = FnIdle
    /\ tx = [t \in 1..MaxRequests |-> Idle]
    /\ clients = "perRequest"

Begin ==
    \E t \in DOMAIN tx, u \in DOMAIN users, e \in ExpenseIds, a \in Actions :
        BeginProcess(t, u, e, a)

Statement ==
    \E t \in DOMAIN tx : UpdateLedger(t) \/ Decide(t) \/ FlipStatus(t) \/ Notify(t)

Finish == \E t \in DOMAIN tx : Commit(t)

Throw == \E t \in DOMAIN tx : Fail(t)

NextTx == Submit \/ Begin \/ Statement \/ Finish \/ Throw

SpecTx == InitTx /\ [][NextTx]_vars

(***************************************************************************)
(* SpecSubmit: one submission run statement by statement.  The route runs  *)
(* its statements on a client from db.getClient between BEGIN and COMMIT;  *)
(* createApprovalWorkflow asks db.getClient again and runs BEGIN and       *)
(* COMMIT of its own.  config/database.js is not part of the sources, so   *)
(* both forms of getClient are taken: "perRequest", where the work of one  *)
(* request shares one client (the request-scoped unit of work), and        *)
(* "perCall", where every call gets a client of its own.  On a shared      *)
(* client the inner BEGIN only warns and the inner COMMIT ends the         *)
(* request's transaction; on a client of its own the builder reads the     *)
(* committed tables only, where the new expense is not yet present.        *)
(***************************************************************************)
ClientModes == {"perRequest", "perCall"}

\* Ids are not reused: the place of a deleted rule stays in the sequence and
\* holds NoRule, which matches no company.
NoRule ==
    [company_id |-> NULL, rule_type |-> "deleted", min_amount |-> NoAmount,
     max_amount |-> NoAmount, percentage_required |-> NULL, specific_approver_id |-> NULL,
     sequence_order |-> NULL, is_active |-> FALSE]

\* The submissions that hold the client their route took from the pool: from
\* db.getClient to client.release() in the finally block.
Holding ==
    {t \in DOMAIN tx : tx[t].pc \in {"insert", "select", "assign", "build", "ocr", "commit"}}

\* db.getClient resolves when the pool has a client that is not checked out;
\* until then the caller waits.
ClientAvailable == Cardinality(Holding) < PoolSize

\* db.query of getApplicableRule and db.getClient of the builder, called while
\* the route holds its client: the request's client when the request shares
\* one, a further client of the pool otherwise.
NestedClientAvailable == clients = "perCall" => ClientAvailable

NoSubmission ==
    [pc |-> "idle", user |-> NULL, amount |-> 0, receipt |-> FALSE, expenseId |-> NULL,
     rule |-> NULL, status |-> "pending", open |-> FALSE, built |-> "no"]

\* The expense row the request has written.
SubmittedRow(t) ==
    [employee_id |-> tx[t].user,
     company_id |-> users[tx[t].user].company_id,
     converted_amount |-> tx[t].amount,
     status |-> tx[t].status,
     approval_rule_id |-> tx[t].rule]

\* After the workflow or the auto-approval: the OCR insert runs for an image receipt.
AfterWorkflow(receipt) == IF receipt THEN "ocr" ELSE "commit"

\* The builder on a client of its own does not find the expense: reading a column
\* of the missing row throws, and so does an INSERT under the foreign key
\* expense_approvals.expense_id -> expenses.id.
BuilderThrows(exps, expenseId, ruleId) ==
    /\ expenseId \notin DOMAIN exps
    /\ LET approvalRule == approval_rules[ruleId]
           steps == StepsOf(ruleId)
       IN \/ approvalRule.rule_type \in {"percentage", "hybrid", "specific_approver"}
          \/ /\ approvalRule.rule_type = "sequential"
             /\ \E k \in 1..Len(steps) :
                   steps[k].approver_role = "manager" \/ steps[k].approver_id # NULL

\* authenticateToken, db.getClient, BEGIN.
BeginSubmit(t, userId, convertedAmount, receipt) ==
    /\ tx[t].pc = "idle"
    /\ authenticateToken(userId)
    /\ ClientAvailable
    /\ tx' = [tx EXCEPT ![t] = [NoSubmission EXCEPT !.pc = "insert", !.user = userId,
                                  !.amount = convertedAmount, !.receipt = receipt,
                                  !.open = TRUE]]
    /\ UNCHANGED <<users, approval_rules, approval_rule_steps, expenses, expense_approvals,
                   notifications, audit_logs, response, userEdits, fn, clients>>

\* INSERT INTO expenses ... RETURNING id.  Until the row is committed its id is
\* known to this request alone; the model names the row by its position in the
\* committed table, which it gets when it is committed.
InsertExpense(t) ==
    /\ tx[t].pc = "insert"
    /\ tx' = [tx EXCEPT ![t].pc = "select"]
    /\ UNCHANGED <<users, approval_rules, approval_rule_steps, expenses, expense_approvals,
                   notifications, audit_logs, response, userEdits, fn, clients>>

\* approvalService.getApplicableRule
FindRule(t) ==
    /\ tx[t].pc = "select"
    /\ NestedClientAvailable
    /\ \E rule \in getApplicableRule(tx[t].amount, users[tx[t].user].company_id) :
         tx' = [tx EXCEPT ![t].rule = rule, ![t].pc = "assign"]
    /\ UNCHANGED <<users, approval_rules, approval_rule_steps, expenses, expense_approvals,
                   notifications, audit_logs, response, userEdits, fn, clients>>

\* UPDATE expenses SET approval_rule_id, or SET status when there is no rule.
\* The foreign key expenses.approval_rule_id -> approval_rules.id makes the
\* UPDATE throw when the rule row is gone; otherwise the row stays locked
\* against deletion until the transaction ends.
AssignRule(t) ==
    /\ tx[t].pc = "assign"
    /\ IF tx[t].rule = NULL
       THEN /\ tx' = [tx EXCEPT ![t].status = "approved",
                                ![t].pc = AfterWorkflow(tx[t].receipt)]
            /\ UNCHANGED response
       ELSE IF approval_rules[tx[t].rule] = NoRule
       THEN /\ tx' = [tx EXCEPT ![t].open = FALSE, ![t].pc = "failed"]
            /\ response' = Reply("submit", 500)
       ELSE /\ tx' = [tx EXCEPT ![t].pc = "build"]
            /\ UNCHANGED response
    /\ UNCHANGED <<users, approval_rules, approval_rule_steps, expenses, expense_approvals,
                   notifications, audit_logs, userEdits, fn, clients>>

\* createApprovalWorkflow from BEGIN to COMMIT, or to its catch block.
BuildWorkflow(t) ==
    /\ tx[t].pc = "build"
    /\ NestedClientAvailable
    /\ UNCHANGED <<users, approval_rules, approval_rule_steps, notifications, audit_logs,
                   userEdits, fn, clients>>
    /\ IF clients = "perRequest"
       THEN LET exps == Append(expenses, SubmittedRow(t))
            IN /\ expenses' = exps
               /\ expense_approvals' = expense_approvals
                      \o createApprovalWorkflow(exps, Len(exps), tx[t].rule)
               /\ tx' = [tx EXCEPT ![t].open = FALSE, ![t].built = "ok",
                                   ![t].expenseId = Len(exps),
                                   ![t].pc = AfterWorkflow(tx[t].receipt)]
               /\ UNCHANGED response
       ELSE IF BuilderThrows(expenses, tx[t].expenseId, tx[t].rule)
            THEN /\ tx' = [tx EXCEPT ![t].open = FALSE, ![t].built = "failed",
                                     ![t].pc = "failed"]
                 /\ response' = Reply("submit", 500)
                 /\ UNCHANGED <<expenses, expense_approvals>>
            ELSE /\ tx' = [tx EXCEPT ![t].built = "ok",
                                     ![t].pc = AfterWorkflow(tx[t].receipt)]
                 /\ UNCHANGED <<expenses, expense_approvals, response>>

\* A statement of the builder fails in the database: its catch block runs
\* ROLLBACK and rethrows, the route's catch block runs ROLLBACK and answers 500.
BuildFails(t) ==
    /\ tx[t].pc = "build"
    /\ NestedClientAvailable
    /\ tx' = [tx EXCEPT ![t].open = FALSE, ![t].built = "failed", ![t].pc = "failed"]
    /\ response' = Reply("submit", 500)
    /\ UNCHANGED <<users, approval_rules, approval_rule_steps, expenses, expense_approvals,
                   notifications, audit_logs, userEdits, fn, clients>>

\* processReceipt and INSERT INTO ocr_results
InsertOcr(t) ==
    /\ tx[t].pc = "ocr"
    /\ tx' = [tx EXCEPT ![t].pc = "commit"]
    /\ UNCHANGED <<users, approval_rules, approval_rule_steps, expenses, expense_approvals,
                   notifications, audit_logs, response, userEdits, fn, clients>>

\* COMMIT and the 201 answer.
CommitSubmit(t) ==
    /\ tx[t].pc = "commit"
    /\ expenses' = IF tx[t].open THEN Append(expenses, SubmittedRow(t)) ELSE expenses
    /\ tx' = [tx EXCEPT ![t].open = FALSE, ![t].pc = "done",
                        ![t].expenseId = IF tx[t].open THEN Len(expenses) + 1
                                         ELSE tx[t].expenseId]
    /\ response' = Reply("submit", 201)
    /\ UNCHANGED <<users, approval_rules, approval_rule_steps, expense_approvals,
                   notifications, audit_logs, userEdits, fn, clients>>

\* A statement of the route throws: ROLLBACK drops what the open transaction
\* wrote (nothing when the transaction was already ended), the route answers 500.
FailSubmit(t) ==
    /\ tx[t].pc \in {"insert", "select", "assign", "ocr", "commit"}
    /\ tx' = [tx EXCEPT ![t].open = FALSE, ![t].pc = "failed"]
    /\ response' = Reply("submit", 500)
    /\ UNCHANGED <<users, approval_rules, approval_rule_steps, expenses, expense_approvals,
                   notifications, audit_logs, userEdits, fn, clients>>

\* The rule tables of the submission runs: the catalog of Init and the rules
\* signup stores, which are sequential without steps for small amounts.
InitSubmit ==
    /\ users = Directory
    /\ \E rule \in RuleCatalog \cup {Rule(1, "sequential", 101, NoAmount, NULL, NULL, 1)} :
         /\ approval_rules = <<rule>>
         /\ IF rule.rule_type = "sequential"
            THEN approval_rule_steps \in StepCatalog \cup {<< >>}
            ELSE approval_rule_steps = << >>
    /\ expenses = << >>
    /\ expense_approvals = << >>
    /\ notifications = EmptyBag
    /\ audit_logs = EmptyBag
    /\ response = NoResponse
    /\ userEdits = 0
    /\ fn = FnIdle
    /\ tx = <<NoSubmission>>
    /\ clients \in ClientModes

StartSubmit ==
    \E t \in DOMAIN tx, u \in Submitters, amount \in Amounts, receipt \in BOOLEAN :
        BeginSubmit(t, u, amount, receipt)

RunSubmit ==
    \E t \in DOMAIN tx : InsertExpense(t) \/ FindRule(t) \/ AssignRule(t) \/ InsertOcr(t)

Build == \E t \in DOMAIN tx : BuildWorkflow(t)

BuildError == \E t \in DOMAIN tx : BuildFails(t)

EndSubmit == \E t \in DOMAIN tx : CommitSubmit(t)

SubmitError == \E t \in DOMAIN tx : FailSubmit(t)

NextSubmit == StartSubmit \/ RunSubmit \/ Build \/ BuildError \/ EndSubmit \/ SubmitError

SpecSubmit == InitSubmit /\ [][NextSubmit]_vars

(***************************************************************************)
(* SpecPool: MaxSubmissions submissions at once on a pool of PoolSize      *)
(* clients.  A request that can take a step eventually takes one: the     *)
(* event loop runs every continuation that is ready.                       *)
(***************************************************************************)
InitPool ==
    /\ users = Directory
    /\ \E rule \in RuleCatalog \cup {Rule(1, "sequential", 101, NoAmount, NULL, NULL, 1)} :
         /\ approval_rules = <<rule>>
         /\ IF rule.rule_type = "sequential"
            THEN approval_rule_steps \in StepCatalog \cup {<< >>}
            ELSE approval_rule_steps = << >>
    /\ expenses = << >>
    /\ expense_approvals = << >>
    /\ notifications = EmptyBag
    /\ audit_logs = EmptyBag
    /\ response = NoResponse
    /\ userEdits = 0
    /\ fn = FnIdle
    /\ tx = [t \in 1..MaxSubmissions |-> NoSubmission]
    /\ clients \in ClientModes

\* The steps a request takes by itself; a failing statement is never owed.
ProgressSubmit == StartSubmit \/ RunSubmit \/ Build \/ EndSubmit

SpecPool == InitPool /\ [][NextSubmit]_vars /\ WF_vars(ProgressSubmit)

(***************************************************************************)
(* SpecRules: a company from its signup on.  The signup stores the admin   *)
(* and the three default rules; the admin creates and updates rules,       *)
(* submits expenses and decides on them.  Amounts are whole units, for     *)
(* which the bounds 100.01 and 1000.01 of the default rules are 101 and    *)
(* 1001.                                                                   *)
(***************************************************************************)
\* The rows of INSERT INTO approval_rules in POST /signup: the columns
\* percentage_required and specific_approver_id are not given, no step is stored.
DefaultRules(companyId) ==
    <<Rule(companyId, "sequential", 0, 100, NULL, NULL, 1),
      Rule(companyId, "sequential", 101, 1000, NULL, NULL, 2),
      Rule(companyId, "percentage", 1001, NoAmount, NULL, NULL, 3)>>

\* POST /api/auth/signup: the company, its admin and the default rules.
Signup ==
    /\ users = << >>
    /\ users' = <<User(1, "admin", NULL)>>
    /\ approval_rules' = approval_rules \o DefaultRules(1)
    /\ response' = Reply("signup", 201)
    /\ UNCHANGED <<approval_rule_steps, expenses, expense_approvals, notifications,
                   audit_logs, userEdits, fn, tx, clients>>

\* A request body of the rule routes; NULL and hasSteps = FALSE stand for a key
\* that is absent.
RuleBody(type, percentage, approver, hasSteps, steps) ==
    [ruleType |-> type, minAmount |-> 0, maxAmount |-> NoAmount,
     percentageRequired |-> percentage, specificApproverId |-> approver,
     sequenceOrder |-> 1, hasSteps |-> hasSteps, steps |-> steps]

BodyStep(order, role, approver) ==
    [stepOrder |-> order, approverRole |-> role, approverId |-> approver]

\* approvalRuleSchema
approvalRuleSchema(body) ==
    /\ body.ruleType \in {"sequential", "percentage", "specific_approver", "hybrid"}
    /\ body.minAmount >= 0
    /\ body.maxAmount = NoAmount \/ body.maxAmount > 0
    /\ body.percentageRequired # NULL =>
          body.percentageRequired >= 1 /\ body.percentageRequired <= 100
    /\ body.ruleType \in {"percentage", "hybrid"} => body.percentageRequired # NULL
    /\ body.ruleType \in {"specific_approver", "hybrid"} => body.specificApproverId # NULL
    /\ body.sequenceOrder >= 1
    /\ body.hasSteps =>
          \A k \in 1..Len(body.steps) :
              /\ body.steps[k].stepOrder >= 1
              /\ body.steps[k].approverRole \in {"manager", "admin", "specific_user"}
              /\ body.steps[k].approverRole = "specific_user" =>
                    body.steps[k].approverId # NULL
    /\ body.ruleType = "sequential" => body.hasSteps

\* The row a body is stored as.
StoredRule(companyId, body) ==
    Rule(companyId, body.ruleType, body.minAmount, body.maxAmount,
         body.percentageRequired, body.specificApproverId, body.sequenceOrder)

\* The step rows a body is stored as.
StoredSteps(ruleId, body) ==
    IF body.ruleType = "sequential" /\ body.hasSteps
    THEN [k \in 1..Len(body.steps) |->
             Step(ruleId, body.steps[k].stepOrder, body.steps[k].approverRole,
                  body.steps[k].approverId)]
    ELSE << >>

\* The foreign keys of the rows to the users table.
ReferencesExist(body) ==
    /\ body.specificApproverId # NULL => body.specificApproverId \in DOMAIN users
    /\ body.hasSteps /\ body.ruleType = "sequential" =>
          \A k \in 1..Len(body.steps) :
              body.steps[k].approverId # NULL => body.steps[k].approverId \in DOMAIN users

\* POST /api/approvals/rules
CreateRule(userId, body) ==
    /\ authenticateToken(userId)
    /\ requireRole(userId, {"admin"})
    /\ UNCHANGED <<users, expenses, expense_approvals, notifications, audit_logs,
                   userEdits, fn, tx, clients>>
    /\ IF ~approvalRuleSchema(body)
       THEN /\ response' = Reply("createRule", 400)
            /\ UNCHANGED <<approval_rules, approval_rule_steps>>
       ELSE IF ~ReferencesExist(body)
       THEN /\ response' = Reply("createRule", 500)
            /\ UNCHANGED <<approval_rules, approval_rule_steps>>
       ELSE /\ approval_rules' =
                  Append(approval_rules, StoredRule(users[userId].company_id, body))
            /\ approval_rule_steps' =
                  approval_rule_steps \o StoredSteps(Len(approval_rules) + 1, body)
            /\ response' = Reply("createRule", 201)

\* PUT /api/approvals/rules/:ruleId
UpdateRule(userId, ruleId, body) ==
    /\ authenticateToken(userId)
    /\ requireRole(userId, {"admin"})
    /\ UNCHANGED <<users, expenses, expense_approvals, notifications, audit_logs,
                   userEdits, fn, tx, clients>>
    /\ IF ~approvalRuleSchema(body)
       THEN /\ response' = Reply("updateRule", 400)
            /\ UNCHANGED <<approval_rules, approval_rule_steps>>
       ELSE IF ~ReferencesExist(body)
       THEN /\ response' = Reply("updateRule", 500)
            /\ UNCHANGED <<approval_rules, approval_rule_steps>>
       ELSE /\ approval_rules' =
                  IF approval_rules[ruleId].company_id = users[userId].company_id
                  THEN [approval_rules EXCEPT
                          ![ruleId] = [StoredRule(users[userId].company_id, body)
                                          EXCEPT !.is_active = approval_rules[ruleId].is_active]]
                  ELSE approval_rules
            /\ approval_rule_steps' =
                  SelectSeq(approval_rule_steps, LAMBDA step : step.rule_id # ruleId)
                  \o StoredSteps(ruleId, body)
            /\ response' = Reply("updateRule", 200)

\* The bodies the admin sends.
RuleBodies ==
    {RuleBody("sequential", NULL, NULL, TRUE, << >>),
     RuleBody("sequential", NULL, NULL, TRUE, <<BodyStep(1, "specific_user", 1)>>),
     RuleBody("sequential", NULL, NULL, FALSE, << >>),
     RuleBody("percentage", 60, NULL, FALSE, << >>),
     RuleBody("percentage", NULL, NULL, FALSE, << >>),
     RuleBody("percentage", 101, NULL, FALSE, << >>),
     RuleBody("specific_approver", NULL, 1, FALSE, << >>),
     RuleBody("specific_approver", NULL, 2, FALSE, << >>),
     RuleBody("hybrid", 60, 1, FALSE, << >>),
     RuleBody("hybrid", 60, NULL, FALSE, << >>)}

UpdatedRules == {1}

RuleAmounts == {50, 500, 5000}

InitRules ==
    /\ users = << >>
    /\ approval_rules = << >>
    /\ approval_rule_steps = << >>
    /\ expenses = << >>
    /\ expense_approvals = << >>
    /\ notifications = EmptyBag
    /\ audit_logs = EmptyBag
    /\ response = NoResponse
    /\ userEdits = 0
    /\ fn = FnIdle
    /\ tx = NoRequests
    /\ clients = "perRequest"

NewRule ==
    /\ Len(approval_rules) < MaxStoredRules
    /\ \E u \in DOMAIN users, body \in RuleBodies : CreateRule(u, body)

ChangeRule ==
    \E u \in DOMAIN users, r \in UpdatedRules \cap DOMAIN approval_rules, body \in RuleBodies :
        UpdateRule(u, r, body)

SubmitAny ==
    /\ Len(expenses) < MaxExpenses
    /\ \E u \in DOMAIN users, amount \in RuleAmounts : SubmitExpense(u, amount)

NextRules == Signup \/ NewRule \/ ChangeRule \/ SubmitAny \/ Process

SpecRules == InitRules /\ [][NextRules]_vars

(***************************************************************************)
(* SpecSeq: one sequential rule with steps of every role; the employee,    *)
(* the manager and the admin (the last two have no manager) submit, and    *)
(* the approvers decide.                                                   *)
(***************************************************************************)
SeqStepCatalog ==
    {<<Step(1, 1, "manager", NULL), Step(1, 2, "specific_user", 3)>>,
     <<Step(1, 2, "manager", NULL), Step(1, 1, "specific_user", 3)>>,
     <<Step(1, 1, "manager", NULL), Step(1, 2, "admin", NULL), Step(1, 3, "specific_user", 3)>>,
     <<Step(1, 1, "admin", NULL), Step(1, 2, "manager", NULL)>>,
     <<Step(1, 1, "admin", 2), Step(1, 2, "specific_user", 3)>>,
     <<Step(1, 1, "manager", NULL), Step(1, 2, "specific_user", 2)>>,
     <<Step(1, 1, "manager", NULL)>>}

InitSeq ==
    /\ users = Directory
    /\ approval_rules = <<Rule(1, "sequential", 101, NoAmount, NULL, NULL, 1)>>
    /\ approval_rule_steps \in SeqStepCatalog
    /\ expenses = << >>
    /\ expense_approvals = << >>
    /\ notifications = EmptyBag
    /\ audit_logs = EmptyBag
    /\ response = NoResponse
    /\ userEdits = 0
    /\ fn = FnIdle
    /\ tx = NoRequests
    /\ clients = "perRequest"

SubmitSeq ==
    /\ Len(expenses) < MaxPairExpenses
    /\ \E u \in DOMAIN users, amount \in Amounts : SubmitExpense(u, amount)

NextSeq == SubmitSeq \/ Process

SpecSeq == InitSeq /\ [][NextSeq]_vars

(***************************************************************************)
(* SpecPeers: two companies with a percentage or hybrid rule each.         *)
(* Company 1 has an employee, a manager, an admin and a manager who was    *)
(* deactivated; company 2 has an admin and a manager.                      *)
(***************************************************************************)
PeerDirectory ==
    <<User(1, "employee", 2), User(1, "manager", NULL), User(1, "admin", NULL),
      [User(1, "manager", NULL) EXCEPT !.is_active = FALSE],
      User(2, "admin", NULL), User(2, "manager", NULL)>>

PeerRules ==
    {Rule(1, "percentage", 101, NoAmount, 50, NULL, 1),
     Rule(1, "hybrid", 101, NoAmount, 50, 1, 1),
     Rule(1, "hybrid", 101, NoAmount, 50, 3, 1)}

InitPeers ==
    /\ users = PeerDirectory
    /\ \E rule \in PeerRules :
         approval_rules = <<rule, Rule(2, "percentage", 101, NoAmount, 50, NULL, 1)>>
    /\ approval_rule_steps = << >>
    /\ expenses = << >>
    /\ expense_approvals = << >>
    /\ notifications = EmptyBag
    /\ audit_logs = EmptyBag
    /\ response = NoResponse
    /\ userEdits = 0
    /\ fn = FnIdle
    /\ tx = NoRequests
    /\ clients = "perRequest"

\* The employee of company 1 and the admin of company 2 submit.
PeerSubmitters == {1, 5}

SubmitPeers ==
    /\ Len(expenses) < MaxPairExpenses
    /\ \E u \in PeerSubmitters, amount \in Amounts : SubmitExpense(u, amount)

NextPeers == SubmitPeers \/ Process

SpecPeers == InitPeers /\ [][NextPeers]_vars

(***************************************************************************)
(* SpecDelete: the system of Spec with the deletion of expenses.  Ids are  *)
(* not reused: the place of a deleted expense stays in the sequence and    *)
(* holds NoExpense.                                                        *)
(***************************************************************************)
NoExpense ==
    [employee_id |-> NULL, company_id |-> NULL, converted_amount |-> 0,
     status |-> "deleted", approval_rule_id |-> NULL]

\* DELETE /api/expenses/:id.  requireSameCompany reads req.params.expenseId and
\* req.params.userId, which this route does not have.  The ledger rows go with
\* the expense (ON DELETE CASCADE).
DeleteExpense(userId, expenseId) ==
    /\ authenticateToken(userId)
    /\ UNCHANGED <<users, approval_rules, approval_rule_steps, notifications, audit_logs,
                   userEdits, fn, tx, clients>>
    /\ IF expenses[expenseId] = NoExpense
       THEN /\ response' = Reply("delete", 404)
            /\ UNCHANGED <<expenses, expense_approvals>>
       ELSE IF expenses[expenseId].employee_id # userId /\ users[userId].role # "admin"
       THEN /\ response' = Reply("delete", 403)
            /\ UNCHANGED <<expenses, expense_approvals>>
       ELSE IF expenses[expenseId].status # "pending" /\ users[userId].role # "admin"
       THEN /\ response' = Reply("delete", 400)
            /\ UNCHANGED <<expenses, expense_approvals>>
       ELSE /\ expenses' = [expenses EXCEPT ![expenseId] = NoExpense]
            /\ expense_approvals' =
                  SelectSeq(expense_approvals, LAMBDA row : row.expense_id # expenseId)
            /\ response' = Reply("delete", 200)

Remove == \E u \in DOMAIN users, e \in ExpenseIds : DeleteExpense(u, e)

NextDelete == SubmitPair \/ Process \/ Remove

SpecDelete == Init /\ [][NextDelete]_vars

(***************************************************************************)
(* SpecRuleOrg: the two companies of SpecOrg; the admins of both update    *)
(* rule 1, which belongs to company 1, while expenses are submitted and    *)
(* decided.                                                                *)
(***************************************************************************)
NextRuleOrg == ChangeRule \/ Submit \/ Process

SpecRuleOrg == InitOrg /\ [][NextRuleOrg]_vars

(***************************************************************************)
(* SpecEdit: the system of Spec without overrides, with the owner's edits  *)
(* of a pending expense.  The rule table is never changed.                 *)
(***************************************************************************)
\* PUT /api/expenses/:id.  requireSameCompany reads req.params.expenseId and
\* req.params.userId, which this route does not have.
UpdateExpense(userId, expenseId, convertedAmount) ==
    /\ authenticateToken(userId)
    /\ UNCHANGED <<users, approval_rules, approval_rule_steps, expense_approvals,
                   notifications, audit_logs, userEdits, fn, tx, clients>>
    /\ IF expenses[expenseId].employee_id # userId
       THEN /\ response' = Reply("updateExpense", 403)
            /\ UNCHANGED expenses
       ELSE IF expenses[expenseId].status # "pending"
       THEN /\ response' = Reply("updateExpense", 400)
            /\ UNCHANGED expenses
       ELSE /\ expenses' = [expenses EXCEPT ![expenseId].converted_amount = convertedAmount]
            /\ response' = Reply("updateExpense", 200)

Edit ==
    \E u \in DOMAIN users, e \in ExpenseIds, amount \in Amounts : UpdateExpense(u, e, amount)

NextEdit == Submit \/ Process \/ Edit

SpecEdit == Init /\ [][NextEdit]_vars

(***************************************************************************)
(* SpecRuleDelete: one submission, statement by statement, next to one     *)
(* DELETE /rules/:ruleId, which first counts the expenses under the rule   *)
(* and then deletes it.  The second place of tx holds the deletion.        *)
(***************************************************************************)
NoDeletion == [NoSubmission EXCEPT !.pc = "ready"]

\* The submissions whose open transaction has written approval_rule_id = ruleId:
\* the foreign-key check holds a lock on the rule row, for which a DELETE waits.
ReferencedByOpen(ruleId) ==
    {s \in DOMAIN tx : /\ tx[s].pc \in {"build", "ocr", "commit"}
                       /\ tx[s].open
                       /\ tx[s].rule = ruleId}

\* The committed expenses under the rule.
InUse(ruleId) == {e \in ExpenseIds : expenses[e].approval_rule_id = ruleId}

\* DELETE /rules/:ruleId up to the in-use check.
CheckInUse(t, userId, ruleId) ==
    /\ tx[t].pc = "ready"
    /\ authenticateToken(userId)
    /\ requireRole(userId, {"admin"})
    /\ IF InUse(ruleId) # {}
       THEN /\ tx' = [tx EXCEPT ![t].pc = "refused", ![t].user = userId, ![t].rule = ruleId]
            /\ response' = Reply("deleteRule", 400)
       ELSE /\ tx' = [tx EXCEPT ![t].pc = "delete", ![t].user = userId, ![t].rule = ruleId]
            /\ UNCHANGED response
    /\ UNCHANGED <<users, approval_rules, approval_rule_steps, expenses, expense_approvals,
                   notifications, audit_logs, userEdits, fn, clients>>

\* Variant: expenses.approval_rule_id without its REFERENCES approval_rules(id).
RemoveRule_NoForeignKey(t) ==
    /\ tx[t].pc = "delete"
    /\ IF approval_rules[tx[t].rule].company_id = users[tx[t].user].company_id
       THEN /\ approval_rules' = [approval_rules EXCEPT ![tx[t].rule] = NoRule]
            /\ approval_rule_steps' =
                  SelectSeq(approval_rule_steps, LAMBDA step : step.rule_id # tx[t].rule)
       ELSE UNCHANGED <<approval_rules, approval_rule_steps>>
    /\ tx' = [tx EXCEPT ![t].pc = "deleted"]
    /\ response' = Reply("deleteRule", 200)
    /\ UNCHANGED <<users, expenses, expense_approvals, notifications, audit_logs,
                   userEdits, fn, clients>>

\* DELETE FROM approval_rules WHERE id AND company_id.  The statement waits for
\* an open transaction that references the rule, throws when a committed
\* expense references it, and takes the rule's steps with it (ON DELETE CASCADE).
RemoveRule(t) ==
    /\ tx[t].pc = "delete"
    /\ approval_rules[tx[t].rule].company_id = users[tx[t].user].company_id
          => ReferencedByOpen(tx[t].rule) = {}
    /\ UNCHANGED <<users, expenses, expense_approvals, notifications, audit_logs,
                   userEdits, fn, clients>>
    /\ IF approval_rules[tx[t].rule].company_id # users[tx[t].user].company_id
       THEN /\ tx' = [tx EXCEPT ![t].pc = "deleted"]
            /\ response' = Reply("deleteRule", 200)
            /\ UNCHANGED <<approval_rules, approval_rule_steps>>
       ELSE IF InUse(tx[t].rule) # {}
       THEN /\ tx' = [tx EXCEPT ![t].pc = "rejected"]
            /\ response' = Reply("deleteRule", 500)
            /\ UNCHANGED <<approval_rules, approval_rule_steps>>
       ELSE /\ approval_rules' = [approval_rules EXCEPT ![tx[t].rule] = NoRule]
            /\ approval_rule_steps' =
                  SelectSeq(approval_rule_steps, LAMBDA step : step.rule_id # tx[t].rule)
            /\ tx' = [tx EXCEPT ![t].pc = "deleted"]
            /\ response' = Reply("deleteRule", 200)

InitRuleDelete ==
    /\ users = Directory
    /\ \E rule \in RuleCatalog :
         /\ approval_rules = <<rule>>
         /\ IF rule.rule_type = "sequential"
            THEN approval_rule_steps \in StepCatalog
            ELSE approval_rule_steps = << >>
    /\ expenses = << >>
    /\ expense_approvals = << >>
    /\ notifications = EmptyBag
    /\ audit_logs = EmptyBag
    /\ response = NoResponse
    /\ userEdits = 0
    /\ fn = FnIdle
    /\ tx = <<NoSubmission, NoDeletion>>
    /\ clients \in ClientModes

StartDelete ==
    \E t \in DOMAIN tx, u \in DOMAIN users, r \in DOMAIN approval_rules : CheckInUse(t, u, r)

EndDelete == \E t \in DOMAIN tx : RemoveRule(t)

NextRuleDelete == NextSubmit \/ StartDelete \/ EndDelete

SpecRuleDelete == InitRuleDelete /\ [][NextRuleDelete]_vars

(***************************************************************************)
(* Vocabulary of the properties.                                           *)
(***************************************************************************)
\* The rule type an expense is decided under ("none": no rule).
RuleTypeOf(e) ==
    IF expenses[e].approval_rule_id \in DOMAIN approval_rules
    THEN approval_rules[expenses[e].approval_rule_id].rule_type
    ELSE "none"

RuleOf(e) == approval_rules[expenses[e].approval_rule_id]

\* An administrative override was applied to the expense.
Overridden(e) == \E row \in BagToSet(audit_logs) : row.expense_id = e

\* Number of expense_status_update notifications inserted for the expense.
StatusNotifications(e) ==
    CopiesIn([user_id |-> expenses[e].employee_id, expense_id |-> e,
              type |-> "expense_status_update"], notifications)

AllApproved(ledger, rows) == \A i \in rows : ledger[i].status = "approved"

ApprovedIn(ledger, rows) == {i \in rows : ledger[i].status = "approved"}

NoneRejected(ledger, rows) == \A i \in rows : ledger[i].status # "rejected"

DistinctApprovers(ledger, rows) ==
    \A i, j \in rows : ledger[i].approver_id = ledger[j].approver_id => i = j

\* The integer form of the percentage predicate over a set of ledger rows.
IntegerPercentage(ledger, rows, required) ==
    Cardinality(ApprovedIn(ledger, rows)) * 100 >= required * Cardinality(rows)

\* The rows of an expense that belong to the specific approver of its rule.
SpecificRows(ledger, e) ==
    {i \in ApprovalsOf(ledger, e) : ledger[i].approver_id = RuleOf(e).specific_approver_id}

\* This step is processApproval recording action a for approver u on expense e.
DecisionStep(e, u, a) ==
    /\ response'.op = "process"
    /\ response'.code = 200
    /\ PendingOf(expense_approvals, e, u) # {}
    /\ \A i \in PendingOf(expense_approvals, e, u) : expense_approvals'[i].status = a

(***************************************************************************)
(* C1: once an expense is approved or rejected, no later recordDecision    *)
(* changes its status.                                                     *)
(***************************************************************************)
C1_TerminalStatusIsFinal ==
    [][response'.op = "process" =>
         \A e \in ExpenseIds :
            expenses[e].status \in Terminal => expenses'[e].status = expenses[e].status]_vars

(***************************************************************************)
(* C2: an expense with a workflow that was never overridden has exactly    *)
(* one expense_status_update notification once it is approved or rejected, *)
(* and none while it is pending: the transition happens, and is notified,  *)
(* once.                                                                   *)
(***************************************************************************)
C2_OneTransitionOneNotification ==
    \A e \in ExpenseIds :
        (expenses[e].approval_rule_id # NULL /\ ~Overridden(e)) =>
            StatusNotifications(e) = IF expenses[e].status \in Terminal THEN 1 ELSE 0

(***************************************************************************)
(* C3: under every rule type, when an approver with a pending row of a     *)
(* pending expense records rejected, the expense is rejected when the call *)
(* returns, whatever the other rows are.                                   *)
(***************************************************************************)
C3_RejectionIsVeto ==
    [][\A e \in ExpenseIds, u \in DOMAIN users :
          (DecisionStep(e, u, "rejected") /\ expenses[e].status = "pending") =>
              /\ expenses'[e].status = "rejected"
              /\ response'.expenseUpdated
              /\ response'.finalStatus = "rejected"]_vars

\* A rejection was just recorded while one row was approved and one still pending.
C3_Witness ==
    /\ response = [op |-> "process", code |-> 200, expenseUpdated |-> TRUE,
                   finalStatus |-> "rejected"]
    /\ \E e \in ExpenseIds :
         /\ expenses[e].status = "rejected"
         /\ ~Overridden(e)
         /\ StatusNotifications(e) = 1
         /\ \E i, j, k \in ApprovalsOf(expense_approvals, e) :
              /\ expense_approvals[i].status = "rejected"
              /\ expense_approvals[j].status = "approved"
              /\ expense_approvals[k].status = "pending"

(***************************************************************************)
(* C4: a sequential expense whose steps all resolved to ledger rows with   *)
(* distinct approvers, with no rejection and no override: every approver   *)
(* holding a pending row passes the pending check of the route; each       *)
(* accepted approval reports the status update exactly when it leaves no   *)
(* row pending; the expense is approved exactly when all rows are          *)
(* approved, and then has exactly one status notification (none before).   *)
(***************************************************************************)
SequentialRun(ledger, e) ==
    /\ RuleTypeOf(e) = "sequential"
    /\ ~Overridden(e)
    /\ ApprovalsOf(ledger, e) # {}
    /\ Cardinality(ApprovalsOf(ledger, e)) = Len(StepsOf(expenses[e].approval_rule_id))
    /\ DistinctApprovers(ledger, ApprovalsOf(ledger, e))
    /\ NoneRejected(ledger, ApprovalsOf(ledger, e))

C4_State ==
    \A e \in ExpenseIds :
        SequentialRun(expense_approvals, e) =>
            LET done == AllApproved(expense_approvals, ApprovalsOf(expense_approvals, e))
            IN /\ expenses[e].status = (IF done THEN "approved" ELSE "pending")
               /\ StatusNotifications(e) = (IF done THEN 1 ELSE 0)
               /\ \A u \in DOMAIN users :
                     PendingOf(expense_approvals, e, u) # {} => HasPendingApproval(e, u)

C4_Step ==
    \A e \in ExpenseIds, u \in DOMAIN users :
        (DecisionStep(e, u, "approved") /\ SequentialRun(expense_approvals, e)) =>
            LET done == AllApproved(expense_approvals', ApprovalsOf(expense_approvals', e))
            IN /\ response'.expenseUpdated = done
               /\ done => response'.finalStatus = "approved"

C4_SequentialApprovedAtLastApproval == [](C4_State) /\ [][C4_Step]_vars

\* The last of two approvers has just approved: the expense is approved, once.
C4_Witness ==
    /\ response = [op |-> "process", code |-> 200, expenseUpdated |-> TRUE,
                   finalStatus |-> "approved"]
    /\ \E e \in ExpenseIds :
         /\ SequentialRun(expense_approvals, e)
         /\ Cardinality(ApprovalsOf(expense_approvals, e)) >= 2
         /\ AllApproved(expense_approvals, ApprovalsOf(expense_approvals, e))
         /\ expenses[e].status = "approved"
         /\ StatusNotifications(e) = 1

C6_ApprovedAtLeastK ==
    \A e \in ExpenseIds :
        LET rows == ApprovalsOf(expense_approvals, e) IN
        (/\ RuleTypeOf(e) = "percentage"
         /\ ~Overridden(e)
         /\ rows # {}
         /\ NoneRejected(expense_approvals, rows)) =>
            expenses[e].status =
                IF IntegerPercentage(expense_approvals, rows, RuleOf(e).percentage_required)
                THEN "approved" ELSE "pending"

(***************************************************************************)
(* C7: the predicate of checkPercentageApproval equals                     *)
(* approved * 100 >= percentageRequired * total for every total in 1..100, *)
(* approved in 0..total and percentageRequired in 1..100.                  *)
(***************************************************************************)
C7_PredicateIsIntegerPredicate ==
    fn.pc = "done" =>
        \A required \in 1..100 :
            PercentageReached(fn.approvalPercentage, required)
                <=> (fn.approved * 100 >= required * fn.total)

(***************************************************************************)
(* C8: a decision makes a hybrid expense approved only if a row of the     *)
(* rule's specific approver for that same expense is approved, or the      *)
(* percentage predicate holds over the expense's own rows (all of them, or *)
(* all but the specific approver's).                                       *)
(***************************************************************************)
C8_HybridApprovedByOwnRows ==
    [][\A e \in ExpenseIds :
          (/\ response'.op = "process"
           /\ RuleTypeOf(e) = "hybrid"
           /\ expenses[e].status # "approved"
           /\ expenses'[e].status = "approved") =>
              LET own == ApprovalsOf(expense_approvals', e)
                  specific == SpecificRows(expense_approvals', e)
              IN \/ \E i \in specific : expense_approvals'[i].status = "approved"
                 \/ IntegerPercentage(expense_approvals', own, RuleOf(e).percentage_required)
                 \/ IntegerPercentage(expense_approvals', own \ specific,
                                      RuleOf(e).percentage_required)]_vars

(***************************************************************************)
(* C9: for a hybrid expense whose specific approver has a row of its own,  *)
(* still pending, an approval that makes the percentage predicate hold     *)
(* over the other rows makes the expense approved.                         *)
(***************************************************************************)
C9_HybridPercentageOverOtherRows ==
    [][\A e \in ExpenseIds, u \in DOMAIN users :
          (/\ DecisionStep(e, u, "approved")
           /\ RuleTypeOf(e) = "hybrid"
           /\ expenses[e].status = "pending"
           /\ Cardinality(SpecificRows(expense_approvals', e)) = 1
           /\ \A i \in SpecificRows(expense_approvals', e) :
                 expense_approvals'[i].status = "pending"
           /\ IntegerPercentage(expense_approvals',
                  ApprovalsOf(expense_approvals', e) \ SpecificRows(expense_approvals', e),
                  RuleOf(e).percentage_required)) =>
              expenses'[e].status = "approved"]_vars

(***************************************************************************)
(* C10: for a hybrid expense whose specific approver has a row of its own  *)
(* (is not among the percentage approvers), the specific approver's        *)
(* approval sets the pending expense to approved, whatever the percentage  *)
(* approvers have decided, also when none has.                             *)
(***************************************************************************)
C10_SpecificApproverAloneApproves ==
    [][\A e \in ExpenseIds, u \in DOMAIN users :
          (/\ DecisionStep(e, u, "approved")
           /\ RuleTypeOf(e) = "hybrid"
           /\ expenses[e].status = "pending"
           /\ u = RuleOf(e).specific_approver_id
           /\ Cardinality(SpecificRows(expense_approvals, e)) = 1) =>
              /\ expenses'[e].status = "approved"
              /\ response'.expenseUpdated
              /\ response'.finalStatus = "approved"]_vars

\* The specific approver has just approved; both percentage approvers are pending.
C10_Witness ==
    /\ response = [op |-> "process", code |-> 200, expenseUpdated |-> TRUE,
                   finalStatus |-> "approved"]
    /\ \E e \in ExpenseIds :
         /\ RuleTypeOf(e) = "hybrid"
         /\ ~Overridden(e)
         /\ expenses[e].status = "approved"
         /\ Cardinality(SpecificRows(expense_approvals, e)) = 1
         /\ \A i \in SpecificRows(expense_approvals, e) :
               expense_approvals[i].status = "approved"
         /\ Cardinality(ApprovalsOf(expense_approvals, e)
                          \ SpecificRows(expense_approvals, e)) >= 2
         /\ \A i \in ApprovalsOf(expense_approvals, e) \ SpecificRows(expense_approvals, e) :
               expense_approvals[i].status = "pending"

(***************************************************************************)
(* C11: for a specific_approver rule the submission creates exactly one    *)
(* ledger row, pending, for the rule's specific approver with step_order   *)
(* 1; the pending expense takes the action that approver records: approved *)
(* on approved, rejected on rejected.                                      *)
(***************************************************************************)
C11_Built ==
    (response'.op = "submit" /\ Len(expenses') = Len(expenses) + 1) =>
        LET e == Len(expenses')
            ruleId == expenses'[e].approval_rule_id
        IN (ruleId # NULL /\ approval_rules[ruleId].rule_type = "specific_approver") =>
              /\ expenses'[e].status = "pending"
              /\ Cardinality(ApprovalsOf(expense_approvals', e)) = 1
              /\ \A i \in ApprovalsOf(expense_approvals', e) :
                    expense_approvals'[i] =
                        [expense_id |-> e,
                         approver_id |-> approval_rules[ruleId].specific_approver_id,
                         step_order |-> 1, status |-> "pending"]

C11_Decided ==
    \A e \in ExpenseIds, u \in DOMAIN users, a \in Actions :
        (/\ DecisionStep(e, u, a)
         /\ RuleTypeOf(e) = "specific_approver"
         /\ expenses[e].status = "pending"
         /\ u = RuleOf(e).specific_approver_id) =>
            /\ expenses'[e].status = a
            /\ response'.expenseUpdated
            /\ response'.finalStatus = a

C11_SpecificApproverDecides == [][C11_Built /\ C11_Decided]_vars

\* The single row of a specific_approver expense was approved, and so is the expense.
C11_Witness ==
    /\ response.op = "process"
    /\ response.finalStatus = "approved"
    /\ \E e \in ExpenseIds :
         /\ RuleTypeOf(e) = "specific_approver"
         /\ ~Overridden(e)
         /\ expenses[e].status = "approved"
         /\ Cardinality(ApprovalsOf(expense_approvals, e)) = 1
         /\ \A i \in ApprovalsOf(expense_approvals, e) :
               /\ expense_approvals[i].approver_id = RuleOf(e).specific_approver_id
               /\ expense_approvals[i].status = "approved"

(***************************************************************************)
(* C12: getApplicableRule returns none exactly when no active rule of the  *)
(* company has min_amount <= amount and max_amount unset or >= amount;     *)
(* otherwise it returns such a rule, no matching rule has a higher         *)
(* min_amount and none with the same min_amount has a lower                *)
(* sequence_order.                                                         *)
(***************************************************************************)
Candidates(amount, companyId) ==
    {r \in DOMAIN approval_rules :
        /\ approval_rules[r].company_id = companyId
        /\ approval_rules[r].is_active
        /\ approval_rules[r].min_amount <= amount
        /\ (approval_rules[r].max_amount = NoAmount \/ amount <= approval_rules[r].max_amount)}

C12_SelectsHighestMinLowestOrder ==
    fn.pc \in {"selected", "again"} =>
        LET candidates == Candidates(fn.expenseAmount, fn.companyId) IN
        IF candidates = {} THEN fn.rule = NULL
        ELSE /\ fn.rule \in candidates
             /\ \A q \in candidates :
                   /\ approval_rules[q].min_amount <= approval_rules[fn.rule].min_amount
                   /\ approval_rules[q].min_amount = approval_rules[fn.rule].min_amount =>
                        approval_rules[fn.rule].sequence_order <= approval_rules[q].sequence_order

\* Rule 2 was selected over an overlapping rule with a lower min_amount, next
\* to nothing else: the other row is a candidate too.
C12_Witness ==
    /\ fn.pc = "selected"
    /\ fn.rule = 2
    /\ Candidates(fn.expenseAmount, fn.companyId) = {1, 2}
    /\ approval_rules[1].min_amount < approval_rules[2].min_amount

(***************************************************************************)
(* C13: on a fixed rule table, two calls of getApplicableRule with the     *)
(* same amount and company return the same rule.                           *)
(***************************************************************************)
C13_SameRuleEveryCall == fn.pc = "again" => fn.again = fn.rule

(***************************************************************************)
(* C14: a committed submission whose converted amount no active rule of    *)
(* the company matches leaves the new expense approved, without rule and   *)
(* without ledger rows; when a rule matches, the new expense is pending    *)
(* and its approval_rule_id is a matching rule with the highest            *)
(* min_amount.                                                             *)
(***************************************************************************)
C14_AutoApprovedIffNoRule ==
    [][(response'.op = "submit" /\ response'.code = 201
            /\ Len(expenses') = Len(expenses) + 1) =>
          LET e == Len(expenses')
              candidates == Candidates(expenses'[e].converted_amount, expenses'[e].company_id)
          IN IF candidates = {}
             THEN /\ expenses'[e].status = "approved"
                  /\ expenses'[e].approval_rule_id = NULL
                  /\ ApprovalsOf(expense_approvals', e) = {}
             ELSE /\ expenses'[e].status = "pending"
                  /\ expenses'[e].approval_rule_id \in candidates
                  /\ \A q \in candidates :
                        approval_rules[q].min_amount
                            <= approval_rules[expenses'[e].approval_rule_id].min_amount]_vars

\* An expense below every rule's range was just submitted and is approved.
C14_Witness ==
    /\ response = Reply("submit", 201)
    /\ \E e \in ExpenseIds :
         /\ Candidates(expenses[e].converted_amount, expenses[e].company_id) = {}
         /\ approval_rules # << >>
         /\ expenses[e].status = "approved"
         /\ expenses[e].approval_rule_id = NULL
         /\ ApprovalsOf(expense_approvals, e) = {}

(***************************************************************************)
(* C15: a process request by a user who has no pending ledger row for the  *)
(* expense (never assigned, or the row is already decided) is answered     *)
(* with an error and leaves the expenses, the ledger, the notifications    *)
(* and the audit log as they were; a request that is accepted decides a    *)
(* row that was pending.                                                   *)
(***************************************************************************)
C15_NoPendingRowNoEffect ==
    [][/\ \A u \in DOMAIN users, e \in ExpenseIds, a \in Actions :
             (ProcessApproval(u, e, a) /\ PendingOf(expense_approvals, e, u) = {}) =>
                 /\ response'.code = 404
                 /\ UNCHANGED <<expenses, expense_approvals, notifications, audit_logs>>
       /\ (response'.op = "process" /\ response'.code = 200) =>
             \E u \in DOMAIN users, e \in ExpenseIds, a \in Actions : DecisionStep(e, u, a)]_vars

\* A request was refused on an expense whose rows are all decided.
C15_Witness ==
    /\ response = Reply("process", 404)
    /\ \E e \in ExpenseIds :
         /\ ApprovalsOf(expense_approvals, e) # {}
         /\ \A i \in ApprovalsOf(expense_approvals, e) : expense_approvals[i].status # "pending"
         /\ ~Overridden(e)
         /\ expenses[e].status = "rejected"
         /\ StatusNotifications(e) = 1

(***************************************************************************)
(* C16: after an override request with an action is answered with success, *)
(* the expense has that action as status and none of its ledger rows is    *)
(* pending.                                                                *)
(***************************************************************************)
C16_OverrideForcesStatus ==
    [][\A u \in DOMAIN users, e \in ExpenseIds, a \in Actions :
          (OverrideApproval(u, e, a) /\ response'.code = 200) =>
              /\ expenses'[e].status = a
              /\ \A i \in ApprovalsOf(expense_approvals', e) :
                    expense_approvals'[i].status # "pending"]_vars

(***************************************************************************)
(* C17: of two process requests on the same expense that were in flight at *)
(* the same time, at most one performs the status update (answers          *)
(* expenseUpdated true), and the expense gets at most one status           *)
(* notification.                                                           *)
(***************************************************************************)
C17_OneTransitionUnderRace ==
    \A t1, t2 \in DOMAIN tx :
        (/\ t1 # t2
         /\ tx[t1].pc = "done" /\ tx[t2].pc = "done"
         /\ tx[t1].expense = tx[t2].expense
         /\ tx[t1].overlapped /\ tx[t2].overlapped) =>
            /\ ~(tx[t1].decision.update /\ tx[t2].decision.update)
            /\ StatusNotifications(tx[t1].expense) <= 1

(***************************************************************************)
(* C19: when a statement of a process request other than the notification  *)
(* insert fails (ledger update, predicate reads, expense update, commit),  *)
(* the request is answered with an error and nothing of it is committed:   *)
(* the ledger, the expenses and the notifications are as before the        *)
(* request, so the approver's row is still pending.                        *)
(***************************************************************************)
C19_Step ==
    \A t \in DOMAIN tx :
        (tx[t].pc \in Open /\ tx'[t].pc = "failed" /\ tx'[t].failedAt # "notify") =>
            /\ UNCHANGED <<expenses, expense_approvals, notifications, audit_logs>>
            /\ response'.code = 500
            /\ \A i \in tx[t].rows : expense_approvals'[i].status = "pending"

\* While a request is open its writes are not committed.
C19_State ==
    \A t \in DOMAIN tx :
        InFlight(t) => \A i \in tx[t].rows : expense_approvals[i].status = "pending"

C19_FailureRollsBack == [](C19_State) /\ [][C19_Step]_vars

\* The expense update of a rejection failed: the row is pending, the expense
\* too, and nothing was notified.
C19_Witness ==
    \E t \in DOMAIN tx :
        /\ tx[t].pc = "failed"
        /\ tx[t].failedAt = "flip"
        /\ tx[t].action = "rejected"
        /\ tx[t].rows # {}
        /\ \A i \in tx[t].rows : expense_approvals[i].status = "pending"
        /\ expenses[tx[t].expense].status = "pending"
        /\ notifications = EmptyBag
        /\ response = Reply("process", 500)

(***************************************************************************)
(* C20: when the notification insert of a process request fails, the       *)
(* decision stays committed: the approver's rows carry the action and the  *)
(* expense has the decided status.                                         *)
(***************************************************************************)
C20_NotificationFailureKeepsDecision ==
    [][\A t \in DOMAIN tx :
          (tx[t].pc = "notify" /\ tx'[t].pc = "failed") =>
              /\ \A i \in tx[t].rows : expense_approvals'[i].status = tx[t].action
              /\ expenses'[tx[t].expense].status = tx[t].decision.status]_vars

(***************************************************************************)
(* C18: a submission that is rolled back after the workflow was built      *)
(* leaves no ledger row of its expense; a submission whose workflow        *)
(* construction failed leaves no expense row; and every committed ledger   *)
(* row belongs to a committed expense.                                     *)
(***************************************************************************)
C18_WorkflowAtomicWithExpense ==
    /\ \A i \in 1..Len(expense_approvals) : expense_approvals[i].expense_id \in ExpenseIds
    /\ \A t \in DOMAIN tx :
          tx[t].pc = "failed" =>
              /\ tx[t].built = "ok" => ApprovalsOf(expense_approvals, tx[t].expenseId) = {}
              /\ tx[t].built = "failed" => tx[t].expenseId \notin ExpenseIds

C22_StepLessRuleFailsSubmission ==
    [][\A e \in DOMAIN expenses' \ DOMAIN expenses :
          LET r == expenses'[e].approval_rule_id
          IN ~(/\ r # NULL
               /\ approval_rules[r].rule_type = "sequential"
               /\ StepsOf(r) = << >>)]_vars

(***************************************************************************)
(* C23: every stored rule is well-formed for its type: percentage and      *)
(* hybrid rules have percentage_required in 1..100, specific_approver and  *)
(* hybrid rules have a specific_approver_id, sequential rules have a step. *)
(***************************************************************************)
C23_WellFormed(r) ==
    LET rule == approval_rules[r]
    IN /\ rule.rule_type \in {"percentage", "hybrid"} =>
             rule.percentage_required \in 1..100
       /\ rule.rule_type \in {"specific_approver", "hybrid"} =>
             rule.specific_approver_id # NULL
       /\ rule.rule_type = "sequential" => StepsOf(r) # << >>

C23_StoredRulesAreWellFormed == \A r \in DOMAIN approval_rules : C23_WellFormed(r)

(***************************************************************************)
(* C24: when an expense is submitted under a sequential rule, the build    *)
(* succeeds and every manager or specific_user step gets one pending       *)
(* ledger row with the step's order when it resolves an approver (the      *)
(* step's approver_id, or the owner's manager), and none when it does not; *)
(* the rows of other expenses are left as they are.                        *)
(***************************************************************************)
C24_Resolved(step, owner) ==
    IF step.approver_role = "manager" THEN users[owner].manager_id ELSE step.approver_id

C24_NewRows(e) ==
    {i \in (Len(expense_approvals) + 1)..Len(expense_approvals') :
        expense_approvals'[i].expense_id = e}

C24_SequentialBuild(e) ==
    LET steps == StepsOf(expenses'[e].approval_rule_id)
        owner == expenses'[e].employee_id
    IN /\ response'.code = 201
       /\ SubSeq(expense_approvals', 1, Len(expense_approvals)) = expense_approvals
       /\ \A k \in 1..Len(steps) :
            steps[k].approver_role \in {"manager", "specific_user"} =>
               LET rows == {i \in C24_NewRows(e) :
                               expense_approvals'[i].step_order = steps[k].step_order}
               IN IF C24_Resolved(steps[k], owner) = NULL
                  THEN rows = {}
                  ELSE /\ Cardinality(rows) = 1
                       /\ \A i \in rows :
                            /\ expense_approvals'[i].approver_id =
                                  C24_Resolved(steps[k], owner)
                            /\ expense_approvals'[i].status = "pending"

C24_OneRowPerResolvedStep ==
    [][\A e \in DOMAIN expenses' \ DOMAIN expenses :
          (/\ expenses'[e].approval_rule_id # NULL
           /\ approval_rules[expenses'[e].approval_rule_id].rule_type = "sequential")
          => C24_SequentialBuild(e)]_vars

\* An expense of the manager, who has no manager, under a rule with a manager
\* step and a specific_user step: the only row is the one of user 3.
C24_Witness ==
    \E e \in ExpenseIds :
        /\ users[expenses[e].employee_id].manager_id = NULL
        /\ expenses[e].approval_rule_id # NULL
        /\ \E k \in 1..Len(StepsOf(expenses[e].approval_rule_id)) :
              StepsOf(expenses[e].approval_rule_id)[k].approver_role = "manager"
        /\ \E i \in ApprovalsOf(expense_approvals, e) :
              /\ expense_approvals[i].approver_id = 3
              /\ ApprovalsOf(expense_approvals, e) = {i}

(***************************************************************************)
(* C25: when an expense is submitted under a sequential rule with an admin *)
(* step and the company has an active admin, the build creates a pending   *)
(* ledger row of that step whose approver is an active admin of the        *)
(* company.                                                                *)
(***************************************************************************)
C25_ActiveAdmins(companyId) ==
    {u \in DOMAIN users : /\ users[u].company_id = companyId
                          /\ users[u].role = "admin"
                          /\ users[u].is_active}

C25_AdminStepGetsAnAdmin ==
    [][\A e \in DOMAIN expenses' \ DOMAIN expenses :
          LET r == expenses'[e].approval_rule_id
          IN (r # NULL /\ approval_rules[r].rule_type = "sequential") =>
                \A k \in 1..Len(StepsOf(r)) :
                    (/\ StepsOf(r)[k].approver_role = "admin"
                     /\ C25_ActiveAdmins(expenses'[e].company_id) # {})
                    => \E i \in C24_NewRows(e) :
                          /\ expense_approvals'[i].step_order = StepsOf(r)[k].step_order
                          /\ expense_approvals'[i].status = "pending"
                          /\ expense_approvals'[i].approver_id
                                \in C25_ActiveAdmins(expenses'[e].company_id)]_vars

(***************************************************************************)
(* C26: when an expense is submitted under a percentage rule, the build    *)
(* adds exactly one pending row with step order 1 for each active manager  *)
(* or admin of the expense's company, and no row for anyone else.          *)
(***************************************************************************)
C26_Peers(companyId) ==
    {u \in DOMAIN users : /\ users[u].company_id = companyId
                          /\ users[u].role \in {"manager", "admin"}
                          /\ users[u].is_active}

C26_RowsOf(e, u) == {i \in C24_NewRows(e) : expense_approvals'[i].approver_id = u}

C26_OneRowPerActivePeer ==
    [][\A e \in DOMAIN expenses' \ DOMAIN expenses :
          LET r == expenses'[e].approval_rule_id
          IN (r # NULL /\ approval_rules[r].rule_type = "percentage") =>
                /\ \A u \in DOMAIN users :
                      Cardinality(C26_RowsOf(e, u)) =
                         IF u \in C26_Peers(expenses'[e].company_id) THEN 1 ELSE 0
                /\ \A i \in C24_NewRows(e) :
                      /\ expense_approvals'[i].step_order = 1
                      /\ expense_approvals'[i].status = "pending"
                      /\ expense_approvals'[i].approver_id \in DOMAIN users
                /\ Len(expense_approvals') =
                      Len(expense_approvals) + Cardinality(C24_NewRows(e))]_vars

\* An expense of company 1 under the percentage rule: rows for manager 2 and
\* admin 3, none for the deactivated manager 4 or for company 2.
C26_Witness ==
    \E e \in ExpenseIds :
        /\ expenses[e].company_id = 1
        /\ expenses[e].approval_rule_id # NULL
        /\ approval_rules[expenses[e].approval_rule_id].rule_type = "percentage"
        /\ ~users[4].is_active /\ users[4].role = "manager" /\ users[4].company_id = 1
        /\ {expense_approvals[i].approver_id : i \in ApprovalsOf(expense_approvals, e)}
              = {2, 3}

(***************************************************************************)
(* C27: when an expense is submitted under a hybrid rule, the rows built   *)
(* are those of the active managers and admins of the company together     *)
(* with the specific approver, one row per approver: a specific approver   *)
(* who is also an active manager or admin gets exactly one row.            *)
(***************************************************************************)
C27_HybridLedgerIsAUnion ==
    [][\A e \in DOMAIN expenses' \ DOMAIN expenses :
          LET r == expenses'[e].approval_rule_id
          IN (r # NULL /\ approval_rules[r].rule_type = "hybrid") =>
                \A u \in DOMAIN users :
                   Cardinality(C26_RowsOf(e, u)) =
                      IF \/ u \in C26_Peers(expenses'[e].company_id)
                         \/ u = approval_rules[r].specific_approver_id
                      THEN 1 ELSE 0]_vars

(***************************************************************************)
(* C28: a decision that is accepted changes exactly one ledger row, the    *)
(* pending row of the approver for the expense; every other row stays as   *)
(* it is.                                                                  *)
(***************************************************************************)
C28_Changed == {i \in 1..Len(expense_approvals) : expense_approvals'[i] # expense_approvals[i]}

C28_DecisionChangesOneRow ==
    [][\A u \in DOMAIN users, e \in ExpenseIds, a \in Actions :
          (ProcessApproval(u, e, a) /\ response'.code = 200) =>
              /\ Len(expense_approvals') = Len(expense_approvals)
              /\ Cardinality(C28_Changed) = 1
              /\ \A i \in C28_Changed :
                    /\ i \in PendingOf(expense_approvals, e, u)
                    /\ expense_approvals'[i] = [expense_approvals[i] EXCEPT !.status = a]]_vars

(***************************************************************************)
(* C29: a ledger row changes at most once, from pending to approved or     *)
(* rejected: in every step a row that is approved or rejected stays as it  *)
(* is, and a pending row changes in its status only.                       *)
(***************************************************************************)
C29_RowDecidedOnce ==
    [][/\ Len(expense_approvals') >= Len(expense_approvals)
       /\ \A i \in 1..Len(expense_approvals) :
             IF expense_approvals[i].status = "pending"
             THEN \E st \in {"pending", "approved", "rejected"} :
                     expense_approvals'[i] = [expense_approvals[i] EXCEPT !.status = st]
             ELSE expense_approvals'[i] = expense_approvals[i]]_vars

\* A row approved by its approver, and an override to rejected that left it.
C29_Witness ==
    \E i \in 1..Len(expense_approvals) :
        /\ expense_approvals[i].status = "approved"
        /\ \E u \in DOMAIN users :
              BagIn([user_id |-> u, expense_id |-> expense_approvals[i].expense_id,
                     action |-> "admin_override", new_values |-> "rejected"], audit_logs)

(***************************************************************************)
(* C30: no operation removes a ledger row: in every step every row of the  *)
(* ledger is still there, for the same expense, approver and step.         *)
(***************************************************************************)
C30_LedgerOnlyGrows ==
    [][/\ Len(expense_approvals') >= Len(expense_approvals)
       /\ \A i \in 1..Len(expense_approvals) :
             /\ expense_approvals'[i].expense_id = expense_approvals[i].expense_id
             /\ expense_approvals'[i].approver_id = expense_approvals[i].approver_id
             /\ expense_approvals'[i].step_order = expense_approvals[i].step_order]_vars

(***************************************************************************)
(* C31: in every committed state, a sequential expense that has ledger     *)
(* rows, all of them approved, has status approved, also when its          *)
(* approvers decide at the same time.                                      *)
(***************************************************************************)
C31_AllApprovedIsApproved ==
    \A e \in ExpenseIds :
        (/\ RuleTypeOf(e) = "sequential"
         /\ ApprovalsOf(expense_approvals, e) # {}
         /\ \A i \in ApprovalsOf(expense_approvals, e) :
               expense_approvals[i].status = "approved")
        => expenses[e].status = "approved"

(***************************************************************************)
(* C32: a processApproval call whose ledger UPDATE matched no pending row  *)
(* commits without changing the expense status and without a notification. *)
(***************************************************************************)
C32_NoRowNoStatusChange ==
    [][\A t \in DOMAIN tx :
          (Commit(t) /\ tx[t].rows = {}) =>
              /\ expenses' = expenses
              /\ notifications' = notifications]_vars

(***************************************************************************)
(* C33: every expense that is pending under an approval rule has at least  *)
(* one pending ledger row.                                                 *)
(***************************************************************************)
C33_PendingExpenseHasPendingRow ==
    \A e \in ExpenseIds :
        (expenses[e].status = "pending" /\ expenses[e].approval_rule_id # NULL) =>
            \E i \in ApprovalsOf(expense_approvals, e) :
                expense_approvals[i].status = "pending"

C35_ForeignOverrideChangesNothing ==
    [][\A u \in DOMAIN users, e \in ExpenseIds, a \in Actions :
          (/\ OverrideApproval(u, e, a)
           /\ expenses[e].company_id # users[u].company_id)
          => UNCHANGED <<expenses, expense_approvals, audit_logs, notifications>>]_vars

(***************************************************************************)
(* C36: a rule update by an admin for a rule of another company leaves the *)
(* rule and its steps unchanged.                                           *)
(***************************************************************************)
C36_ForeignRuleUpdateChangesNothing ==
    [][\A u \in DOMAIN users, r \in DOMAIN approval_rules, body \in RuleBodies :
          (/\ UpdateRule(u, r, body)
           /\ approval_rules[r].company_id # users[u].company_id)
          => UNCHANGED <<approval_rules, approval_rule_steps>>]_vars

(***************************************************************************)
(* C37: what a decision does to a pending expense is fixed when its ledger *)
(* is built: a step that leaves the expenses and the ledger as they are    *)
(* (a rule update) does not change the outcome of any decision that an     *)
(* approver with a pending row can take.  C37_Outcome is the result of     *)
(* shouldUpdateExpenseStatus after that decision when the rule row of the  *)
(* expense reads rule.                                                     *)
(***************************************************************************)
C37_Outcome(rule, e, u, a) ==
    LET ledger == DecidedLedger(e, u, a) IN
    IF a = "rejected" THEN UpdateTo("rejected")
    ELSE CASE rule.rule_type = "sequential" -> checkSequentialApproval(ledger, e)
           [] rule.rule_type = "percentage" ->
                checkPercentageApproval(ledger, e, rule.percentage_required)
           [] rule.rule_type = "specific_approver" -> UpdateTo("approved")
           [] rule.rule_type = "hybrid" ->
                IF /\ rule.specific_approver_id # NULL
                   /\ \E i \in 1..Len(ledger) :
                         /\ ledger[i].approver_id = rule.specific_approver_id
                         /\ ledger[i].status = "approved"
                THEN UpdateTo("approved")
                ELSE checkPercentageApproval(ledger, e, rule.percentage_required)
           [] OTHER -> NoUpdate

C37_PredicateFixedAtBuild ==
    [][(expenses' = expenses /\ expense_approvals' = expense_approvals) =>
          \A e \in ExpenseIds, u \in DOMAIN users, a \in Actions :
              (/\ expenses[e].status = "pending"
               /\ expenses[e].approval_rule_id # NULL
               /\ PendingOf(expense_approvals, e, u) # {})
              => C37_Outcome(approval_rules'[expenses[e].approval_rule_id], e, u, a)
                    = C37_Outcome(approval_rules[expenses[e].approval_rule_id], e, u, a)]_vars

(***************************************************************************)
(* C38: with the rule table unchanged, every pending expense is under the  *)
(* rule that getApplicableRule gives for its current converted amount.     *)
(***************************************************************************)
C38_PendingExpenseUnderSelectedRule ==
    \A e \in ExpenseIds :
        expenses[e].status = "pending" =>
            expenses[e].approval_rule_id
                \in getApplicableRule(expenses[e].converted_amount, expenses[e].company_id)

(***************************************************************************)
(* C39: a rule that a committed expense references is never deleted, and   *)
(* in every committed state the approval_rule_id of each expense names a   *)
(* rule that exists, also when the deletion runs next to the submission.   *)
(***************************************************************************)
C39_State ==
    \A e \in ExpenseIds :
        expenses[e].approval_rule_id # NULL =>
            /\ expenses[e].approval_rule_id \in DOMAIN approval_rules
            /\ approval_rules[expenses[e].approval_rule_id] # NoRule

C39_Step ==
    \A r \in DOMAIN approval_rules : InUse(r) # {} => approval_rules'[r] = approval_rules[r]

C39_RuleInUseIsKept == []C39_State /\ [][C39_Step]_vars

\* The deletion passed its in-use check, the submission then committed an
\* expense under the rule, and the DELETE was rejected.
C39_Witness ==
    \E t \in DOMAIN tx :
        /\ tx[t].pc = "rejected"
        /\ InUse(tx[t].rule) # {}
        /\ approval_rules[tx[t].rule] # NoRule

====
